---- MODULE Spec2Model ----
(***************************************************************************)
(* Coachd real-time guidance engine (src/app/realtime.py).                 *)
(*                                                                         *)
(* A RealtimeTranscriber session is driven by two threads.  The Deepgram   *)
(* listener thread calls _handle_transcript, which evaluates the trigger   *)
(* policy (_check_for_guidance_trigger) directly on that thread and hands  *)
(* coroutines to the session's asyncio loop with _schedule_async.  The     *)
(* loop runs _generate_guidance, which streams the backend's fragments to  *)
(* the client under asyncio.wait_for.                                      *)
(*                                                                         *)
(* Time is counted in milliseconds.  Transcripts and guidance text are     *)
(* strings; str.lower, str.strip, str.split, str.startswith and slicing    *)
(* are computed character by character.                                    *)
(***************************************************************************)
EXTENDS Integers, Sequences, FiniteSets, TLC

\* ------------------------------------------------------------------------
\* Program constants (realtime.py, class RealtimeTranscriber), milliseconds
\* ------------------------------------------------------------------------
GUIDANCE_TIMEOUT_SECONDS == 8000
GUIDANCE_COOLDOWN_SECONDS == 3000
HOT_TRIGGER_COOLDOWN_SECONDS == 1500
MIN_WORDS_FOR_GUIDANCE == 12
BATCH_INTERVAL == 80
\* the audio format _log_session_usage derives the duration from
SAMPLE_RATE == 16000
BYTES_PER_SAMPLE == 2
CHANNELS == 1
\* _is_semantic_duplicate: the tracking window and the compared prefix
DEDUP_WINDOW == 3000
PREFIX_CHARS == 30
\* _is_semantic_duplicate: overlap > 0.7, kept as the fraction 7 / 10
OVERLAP_NUM == 7
OVERLAP_DEN == 10

\* ------------------------------------------------------------------------
\* Bounds of the model
\* ------------------------------------------------------------------------
\* transcript callbacks the provider delivers in one run
MaxEvents == 2
\* clock advances in one run
MaxTicks == 2
\* fragments the backend yields in one generation
MaxFragments == 2
\* calls of the client's handler and incidents of the provider in a session
MaxCalls == 2
\* the cap CallStateMachine is configured with; its value is not part of
\* the session's code
MaxDownCloseLevel == 2
\* messages of the agent's stream
MaxMessages == 3
\* get_or_create calls of the stream handlers' registry
MaxLookups == 2
\* transcript callbacks of a ClientStreamHandler's connection
MaxCallbacks == 2
\* bytes of audio a ClientStreamHandler is sent
MaxAudioBytes == 3

\* the sessions the stream handlers are registered under
SessionIds == {"s1", "s2"}

\* ------------------------------------------------------------------------
\* Python string operations
\* ------------------------------------------------------------------------
Min(a, b) == IF a < b THEN a ELSE b
Max(a, b) == IF a > b THEN a ELSE b

Ch(s, i) == SubSeq(s, i, i)

Whitespace == {" ", "\t", "\n"}

UpperCase == "ABCDEFGHIJKLMNOPQRSTUVWXYZ"
LowerCase == "abcdefghijklmnopqrstuvwxyz"

LowerChar(c) ==
    IF \E i \in 1..Len(UpperCase) : Ch(UpperCase, i) = c
    THEN Ch(LowerCase, CHOOSE i \in 1..Len(UpperCase) : Ch(UpperCase, i) = c)
    ELSE c

\* s.lower()
RECURSIVE Lower(_)
Lower(s) ==
    IF Len(s) = 0 THEN ""
    ELSE LowerChar(Ch(s, 1)) \o Lower(SubSeq(s, 2, Len(s)))

\* s.strip()
RECURSIVE LStrip(_)
LStrip(s) ==
    IF Len(s) > 0 /\ Ch(s, 1) \in Whitespace
    THEN LStrip(SubSeq(s, 2, Len(s)))
    ELSE s

RECURSIVE RStrip(_)
RStrip(s) ==
    IF Len(s) > 0 /\ Ch(s, Len(s)) \in Whitespace
    THEN RStrip(SubSeq(s, 1, Len(s) - 1))
    ELSE s

Strip(s) == RStrip(LStrip(s))

\* s[:n]
Prefix(s, n) == SubSeq(s, 1, Min(n, Len(s)))

\* s[-n:]
Suffix(s, n) == SubSeq(s, Max(1, Len(s) - n + 1), Len(s))

\* s.startswith(p)
StartsWith(s, p) == Len(p) <= Len(s) /\ SubSeq(s, 1, Len(p)) = p

\* kw in s
Contains(s, kw) ==
    \E i \in 1..(Len(s) - Len(kw) + 1) : SubSeq(s, i, i + Len(kw) - 1) = kw

\* the first whitespace-delimited word of s, s not starting with whitespace
RECURSIVE FirstWord(_)
FirstWord(s) ==
    IF Len(s) = 0 \/ Ch(s, 1) \in Whitespace THEN ""
    ELSE Ch(s, 1) \o FirstWord(SubSeq(s, 2, Len(s)))

\* s.split(): the words of s, in order
RECURSIVE Split(_)
Split(s) ==
    LET t == LStrip(s) IN
    IF Len(t) = 0 THEN << >>
    ELSE LET w == FirstWord(t) IN
         << w >> \o Split(SubSeq(t, Len(w) + 1, Len(t)))

\* set(s.split())
WordSet(s) == { Split(s)[i] : i \in 1..Len(Split(s)) }

\* len(s.split())
WordCount(s) == Len(Split(s))

\* ------------------------------------------------------------------------
\* Trigger policy
\* ------------------------------------------------------------------------
hot_triggers == {
    "afford", "expensive", "cost", "price", "money", "budget", "too much",
    "cheaper", "waste", "worth it", "tight", "think about", "talk to",
    "spouse", "wife", "husband", "not sure", "don't know", "maybe", "later",
    "call me back", "let me think", "need time", "sleep on it", "pray about",
    "pray on", "send me information", "email me", "mail me",
    "send me something", "already have", "don't need", "not interested",
    "no thanks", "can't", "won't", "no way", "pass", "not for me", "scam",
    "pushy", "what's the catch", "fine print", "too good", "sounds fishy",
    "pyramid", "legit", "too young", "too old", "healthy", "never get sick",
    "pre-existing", "health issues", "medical", "bad time", "busy",
    "call back", "not now", "swamped", "work insurance", "through my job",
    "employer", "through work", "social security", "government", "va ",
    "veteran", "term", "whole life", "universal", "cash value", "investment",
    "stock market", "better return", "mutual fund", "dave ramsey", "ramsey",
    "suze orman", "waiting period", "how long", "blood test", "exam",
    "check with", "ask my", "run it by" }

\* any(kw in text_lower for kw in hot_triggers)
has_hot_trigger(latest_transcript) ==
    LET text_lower == Lower(latest_transcript) IN
    \E kw \in hot_triggers : Contains(text_lower, kw)

\* the comparison were the overlap test not strict
SimilarText_OverlapNotStrict(new_text, last_text) ==
    LET new_lower == Strip(Lower(new_text))
        last_lower == Strip(Lower(last_text))
        new_words == WordSet(new_lower)
        last_words == WordSet(last_lower)
    IN  \/ StartsWith(new_lower, Prefix(last_lower, PREFIX_CHARS))
        \/ StartsWith(last_lower, Prefix(new_lower, PREFIX_CHARS))
        \/ /\ Cardinality(new_words) > 0
           /\ Cardinality(last_words) > 0
           /\ OVERLAP_DEN * Cardinality(new_words \cap last_words)
                >= OVERLAP_NUM * Max(Cardinality(new_words), Cardinality(last_words))

\* _is_semantic_duplicate, lines 293-310: the comparison of the two texts
SimilarText(new_text, last_text) ==
    LET new_lower == Strip(Lower(new_text))
        last_lower == Strip(Lower(last_text))
        new_words == WordSet(new_lower)
        last_words == WordSet(last_lower)
    IN  \/ StartsWith(new_lower, Prefix(last_lower, PREFIX_CHARS))
        \/ StartsWith(last_lower, Prefix(new_lower, PREFIX_CHARS))
        \/ /\ Cardinality(new_words) > 0
           /\ Cardinality(last_words) > 0
           /\ OVERLAP_DEN * Cardinality(new_words \cap last_words)
                > OVERLAP_NUM * Max(Cardinality(new_words), Cardinality(last_words))

\* ------------------------------------------------------------------------
\* Transcripts the provider delivers, fragments the backend yields
\* ------------------------------------------------------------------------
TextWifeInterim == "I need to talk to my wife"
TextWifeFinal == "I need to talk to my wife about it"
TextExpensive == "that's too expensive for us right now"
TextExpensiveCut == "that's too expensive for us right"
TextExpensiveLong == "that's too expensive for us right this month and year"
TextReordered == "right now that's too expensive for us"
TextOverlapAtLimit == "honestly right now that's too expensive for us this year"
TextAfford == "We can't afford that"
TextFiller12 == "we went to the lake on sunday and it rained all day"
TextFiller1 == "okay"
TextFiller13 == "we went to the lake on sunday and it rained nearly all day"

Fragments == {"", "a", "b"}

\* One environment of a call: what is said (texts) in how many transcript
\* callbacks (events), by how much the clock may advance between two steps
\* (steps) and how often (ticks), what the backend may yield (fragments)
\* and how many (yields), what the price-objection classifier may answer
\* (price), whether an on_guidance call may suspend its caller (suspend),
\* and how many calls the client's handler and incidents the provider make
\* besides (calls).

\* an interim transcript and the final one that extends it
EnvRace ==
    [texts |-> {TextWifeInterim, TextWifeFinal}, events |-> MaxEvents,
     steps |-> {300, GUIDANCE_TIMEOUT_SECONDS}, ticks |-> MaxTicks,
     fragments |-> {"a"}, yields |-> 1,
     price |-> {FALSE}, suspend |-> {TRUE}, calls |-> 0]

\* two different objections in quick succession
EnvBurst ==
    [texts |-> {TextWifeInterim, TextAfford}, events |-> MaxEvents + 1,
     steps |-> {500, GUIDANCE_TIMEOUT_SECONDS}, ticks |-> MaxTicks - 1,
     fragments |-> {"a"}, yields |-> 1,
     price |-> {FALSE}, suspend |-> {TRUE}, calls |-> 0]

\* objections repeated around the cooldown and the dedup window
EnvWindows ==
    [texts |-> {TextExpensive, TextAfford}, events |-> MaxEvents,
     steps |-> {500, HOT_TRIGGER_COOLDOWN_SECONDS, GUIDANCE_TIMEOUT_SECONDS},
     ticks |-> MaxTicks,
     fragments |-> {"a"}, yields |-> 1,
     price |-> {FALSE}, suspend |-> {TRUE}, calls |-> 0]

\* ordinary conversation, no objection
EnvWords ==
    [texts |-> {TextFiller12, TextFiller1}, events |-> MaxEvents + 1,
     steps |-> {GUIDANCE_COOLDOWN_SECONDS, GUIDANCE_TIMEOUT_SECONDS},
     ticks |-> MaxTicks,
     fragments |-> {"a"}, yields |-> 1,
     price |-> {FALSE}, suspend |-> {TRUE}, calls |-> 0]

\* one objection, answered by a stream of fragments
EnvStream ==
    [texts |-> {TextWifeInterim}, events |-> 1,
     steps |-> {BATCH_INTERVAL \div 2, GUIDANCE_TIMEOUT_SECONDS},
     ticks |-> MaxTicks + 1,
     fragments |-> Fragments, yields |-> MaxFragments,
     price |-> BOOLEAN, suspend |-> BOOLEAN, calls |-> 0]

\* a call that is streamed, hit by incidents and torn down: one objection,
\* said twice
EnvSession ==
    [texts |-> {TextWifeInterim}, events |-> 2,
     steps |-> {GUIDANCE_TIMEOUT_SECONDS}, ticks |-> 1,
     fragments |-> {"a"}, yields |-> 1,
     price |-> {FALSE}, suspend |-> {TRUE}, calls |-> MaxCalls]

\* a call that is coached: one objection, and as many calls of the client's
\* handler as reach the down-close cap and pass it
EnvCoach ==
    [texts |-> {TextWifeInterim}, events |-> 1,
     steps |-> {GUIDANCE_TIMEOUT_SECONDS}, ticks |-> 1,
     fragments |-> {"a"}, yields |-> 1,
     price |-> {FALSE}, suspend |-> {TRUE}, calls |-> MaxDownCloseLevel + 2]

\* two calls at once, one objection in each, and one call of each client's
\* handler
EnvPair ==
    [texts |-> {TextWifeInterim}, events |-> 1,
     steps |-> {GUIDANCE_TIMEOUT_SECONDS}, ticks |-> 1,
     fragments |-> {"a"}, yields |-> 1,
     price |-> {FALSE}, suspend |-> {TRUE}, calls |-> 1]

\* a coached call whose one objection is answered by a stream of
\* fragments: the classifier may flag it, the client may create the state
\* machine before, during or after the generation
EnvHistory ==
    [texts |-> {TextWifeInterim}, events |-> 1,
     steps |-> {GUIDANCE_TIMEOUT_SECONDS}, ticks |-> 1,
     fragments |-> Fragments, yields |-> MaxFragments,
     price |-> BOOLEAN, suspend |-> BOOLEAN, calls |-> 1]

\* two objections, each answered by a stream of fragments
EnvOrder ==
    [texts |-> {TextWifeInterim, TextAfford}, events |-> MaxEvents,
     steps |-> {GUIDANCE_TIMEOUT_SECONDS}, ticks |-> MaxTicks,
     fragments |-> {"a", "b"}, yields |-> MaxFragments,
     price |-> {FALSE}, suspend |-> BOOLEAN, calls |-> 0]

\* an objection, ordinary conversation that fires on its word count, and
\* the objection again
EnvDedup ==
    [texts |-> {TextExpensive, TextFiller13}, events |-> MaxEvents + 2,
     steps |-> {HOT_TRIGGER_COOLDOWN_SECONDS, GUIDANCE_COOLDOWN_SECONDS},
     ticks |-> MaxTicks,
     fragments |-> {"a"}, yields |-> 1,
     price |-> {FALSE}, suspend |-> {FALSE}, calls |-> 0]

\* an objection, and ordinary conversation during its generation and
\* after it
EnvReset ==
    [texts |-> {TextWifeInterim, TextFiller13}, events |-> MaxEvents + 1,
     steps |-> {GUIDANCE_TIMEOUT_SECONDS}, ticks |-> MaxTicks - 1,
     fragments |-> {"", "a"}, yields |-> 1,
     price |-> {FALSE}, suspend |-> {TRUE}, calls |-> 0]

\* callers of the stream handlers' registry; no transcript, no clock
EnvRegistry ==
    [texts |-> {TextFiller1}, events |-> 0,
     steps |-> {GUIDANCE_COOLDOWN_SECONDS}, ticks |-> 0,
     fragments |-> {"a"}, yields |-> 0,
     price |-> {FALSE}, suspend |-> {FALSE}, calls |-> MaxLookups]

\* one stream handler and the transcripts of its connection
EnvGate ==
    [texts |-> {TextWifeInterim, TextFiller1},
     events |-> MaxCallbacks,
     steps |-> {HOT_TRIGGER_COOLDOWN_SECONDS},
     ticks |-> MaxTicks,
     fragments |-> {"a"}, yields |-> 1,
     price |-> {FALSE}, suspend |-> {FALSE}, calls |-> 1]

\* one stream handler, its audio and the end of its stream
EnvTeardown ==
    [texts |-> {TextFiller1}, events |-> 0,
     steps |-> {GUIDANCE_COOLDOWN_SECONDS}, ticks |-> 0,
     fragments |-> {"a"}, yields |-> 0,
     price |-> {FALSE}, suspend |-> {FALSE}, calls |-> 1]

Environments ==
    { EnvRace, EnvBurst, EnvWindows, EnvWords, EnvStream, EnvSession,
      EnvCoach, EnvPair, EnvHistory, EnvOrder, EnvDedup, EnvReset,
      EnvRegistry, EnvGate, EnvTeardown }

\* len(audio_data) of the chunks handed to send_audio: none, one second
AudioChunks == {0, SAMPLE_RATE * BYTES_PER_SAMPLE * CHANNELS}

\* context_data as update_context reads it: its call_type, "absent" when
\* the key is missing
Contexts == [call_type : {"absent", "", "phone", "presentation"}]

AllSteps == UNION { e.steps : e \in Environments }
AllTexts == UNION { e.texts : e \in Environments }
AllFragments == UNION { e.fragments : e \in Environments }

\* texts _is_semantic_duplicate is evaluated on
Candidates ==
    AllTexts \cup {TextExpensiveCut, TextExpensiveLong, TextReordered,
                   TextOverlapAtLimit}

\* has_hot_trigger and SimilarText, tabulated over the transcripts
HotTrigger == [t \in AllTexts |-> has_hot_trigger(t)]
Similar == [new_text \in Candidates, last_text \in Candidates |->
              SimilarText(new_text, last_text)]

\* ------------------------------------------------------------------------
\* State
\* ------------------------------------------------------------------------
VARIABLES
    env,                  \* the call's environment, fixed for the run
    now,                  \* time.time() / loop.time()
    ticks,                \* clock advances so far
    rag_engine,           \* self.rag_engine is not None
    transcript_buffer,    \* self.transcript_buffer
    last_guidance_time,   \* self.last_guidance_time
    last_trigger_text,    \* self.last_trigger_text
    generating_guidance,  \* self._generating_guidance
    provider,             \* the Deepgram thread's position in _handle_transcript
    loopQueue,            \* coroutines handed to the loop, not yet started
    notified,             \* number of transcripts passed to on_transcript
    gens,                 \* _generate_guidance coroutines past their guards
    delivered,            \* number of transcript callbacks so far
    invoked,              \* _generate_guidance invocations so far: the guards' outcome
    sent,                 \* events passed to on_guidance so far
    failures,             \* generations ended by the except of line 561
    is_running,           \* self.is_running
    connection,           \* self.connection is not None
    loop_running,         \* self._loop.is_running()
    total_audio_bytes,    \* self._total_audio_bytes
    state_machine,        \* self.state_machine
    client,               \* the client handler's calls: where they stand
    usage_log,            \* durations passed to log_deepgram_usage so far
    errors_notified,      \* error events passed to on_transcript so far
    agent,                \* the AgentStreamHandler of the call's other leg
    peer,                 \* the RealtimeTranscriber of another session
    hot_fired,            \* the last hot trigger that fired: its time and text
    handlers,             \* every ClientStreamHandler constructed so far
    client_handlers,      \* _client_handlers: session id to handler, 0 if absent
    agents,               \* every AgentStreamHandler constructed so far
    agent_handlers,       \* _agent_handlers: session id to handler, 0 if absent
    tasks,                \* coroutines of the stream handlers on the event loop
    broadcasts,           \* messages passed to _broadcast_to_session so far
    deepgram_usage        \* handlers that called log_deepgram_usage, in order

\* the objects beside this session's transcriber
beside == << agent, peer >>

\* the session's transport and what the client's handler drives
transport == << is_running, connection, loop_running, total_audio_bytes,
                client, usage_log, errors_notified, beside >>

\* the session's life cycle: its transport and its state machine
lifecycle == << transport, state_machine >>

\* the Telnyx stream handlers and their registry
telnyx == << handlers, client_handlers, agents, agent_handlers, tasks,
             broadcasts, deepgram_usage >>

\* the transcriber's session and the clock
realtime == << env, now, ticks, rag_engine, transcript_buffer,
               last_guidance_time, last_trigger_text, generating_guidance,
               provider, loopQueue, notified, gens, delivered, invoked, sent,
               failures, lifecycle, hot_fired >>

vars == << realtime, telnyx >>

\* A clock reading further from the epoch than every window: the session's
\* last_guidance_time starts at 0 and time.time() is seconds since 1970.
StartTime == GUIDANCE_TIMEOUT_SECONDS + GUIDANCE_COOLDOWN_SECONDS

ProviderIdle == [pc |-> "idle", text |-> ""]

\* self.state_machine = None
NoStateMachine ==
    [id |-> 0, is_phone_call |-> FALSE, down_close_level |-> 0,
     objections |-> << >>, guidance |-> << >>]

\* no call of the client's handler is under way and none was made: calls
\* counts them, created the CallStateMachine objects, forwarded the chunks
\* handed to connection.send, closed whether the provider reported the
\* close, sending and stopping the calls suspended in send_audio and in
\* stop, result what the last apply_down_close returned, call_type the
\* call_context.call_type the last update left ("absent": none yet), busy
\* whether a generation was in flight when stop() was last called
ClientIdle ==
    [calls |-> 0, created |-> 0, forwarded |-> 0, closed |-> FALSE,
     sending |-> FALSE, stopping |-> 0, result |-> "none",
     call_type |-> "absent", busy |-> FALSE]

\* AgentStreamHandler.__init__: handled is the calls made of the handler
\* so far, start() and stop() and the messages handled
AgentIdle == [is_running |-> FALSE, total_audio_bytes |-> 0, handled |-> << >>]

\* another session's RealtimeTranscriber after __init__ and start(): its
\* own attributes, and besides them queued, the _generate_guidance
\* coroutines it handed to the loop, pc, where its generation stands,
\* delivered and calls, the transcripts it was delivered and the calls its
\* client made
PeerIdle ==
    [transcript_buffer |-> "", last_guidance_time |-> 0,
     last_trigger_text |-> "", generating_guidance |-> FALSE,
     total_audio_bytes |-> 0, state_machine |-> NoStateMachine,
     is_running |-> TRUE, queued |-> 0, pc |-> "idle", delivered |-> 0,
     calls |-> 0]

\* no hot trigger has fired yet
NoHotTrigger == [time |-> 0, text |-> ""]

\* __init__, then start(): the loop is captured and the RAG engine is
\* initialised or, when get_rag_engine raises, left None.
Init ==
    /\ env \in Environments
    /\ now = StartTime
    /\ ticks = 0
    /\ rag_engine \in BOOLEAN
    /\ transcript_buffer = ""
    /\ last_guidance_time = 0
    /\ last_trigger_text = ""
    /\ generating_guidance = FALSE
    /\ provider = ProviderIdle
    /\ loopQueue = << >>
    /\ notified = 0
    /\ gens = << >>
    /\ delivered = 0
    /\ invoked = << >>
    /\ sent = << >>
    /\ failures = 0
    /\ is_running = TRUE
    /\ connection = TRUE
    /\ loop_running = TRUE
    /\ total_audio_bytes = 0
    /\ state_machine = NoStateMachine
    /\ client = ClientIdle
    /\ usage_log = << >>
    /\ errors_notified = 0
    /\ agent = AgentIdle
    /\ peer = PeerIdle
    /\ hot_fired = NoHotTrigger
    /\ handlers = << >>
    /\ client_handlers = [id \in SessionIds |-> 0]
    /\ agents = << >>
    /\ agent_handlers = [id \in SessionIds |-> 0]
    /\ tasks = << >>
    /\ broadcasts = << >>
    /\ deepgram_usage = << >>

\* ------------------------------------------------------------------------
\* Deepgram thread: _handle_transcript
\* ------------------------------------------------------------------------
\* the hand-off were the loop not asked whether it runs
schedule_async_NoLoopTest(queue, coro) == Append(queue, coro)

\* the hand-off were the coroutine put in front of the loop's callbacks
schedule_async_Front(queue, coro) ==
    IF loop_running THEN << coro >> \o queue ELSE queue

\* _schedule_async: the coroutine joins the loop's FIFO of ready callbacks
\* when the loop runs, and is dropped otherwise
schedule_async(queue, coro) ==
    IF loop_running THEN Append(queue, coro) ELSE queue

GenerateCoro == [kind |-> "generate"]

\* on_transcript({"type": "transcript", ...}); the payload is not tracked
TranscriptCoro == [kind |-> "transcript"]

\* the duplicate check were its window never to expire
is_semantic_duplicate_NoExpiry(new_text) ==
    IF last_trigger_text = ""
    THEN [result |-> FALSE, last_trigger_text |-> last_trigger_text]
    ELSE [result |-> Similar[new_text, last_trigger_text],
          last_trigger_text |-> last_trigger_text]

\* _is_semantic_duplicate(new_text): its result and the last_trigger_text
\* it leaves behind
is_semantic_duplicate(new_text) ==
    IF last_trigger_text = ""
    THEN [result |-> FALSE, last_trigger_text |-> last_trigger_text]
    ELSE IF now - last_guidance_time > DEDUP_WINDOW
    THEN [result |-> FALSE, last_trigger_text |-> ""]
    ELSE [result |-> Similar[new_text, last_trigger_text],
          last_trigger_text |-> last_trigger_text]

\* the branch taken were the hot cooldown not tested
TriggerDecision_NoHotCooldown(latest_transcript, is_final) ==
    IF generating_guidance THEN "generating"
    ELSE IF HotTrigger[latest_transcript]
    THEN IF is_semantic_duplicate(latest_transcript).result
         THEN "duplicate"
         ELSE "hot_fire"
    ELSE IF ~is_final THEN "interim"
    ELSE IF now - last_guidance_time < GUIDANCE_COOLDOWN_SECONDS
    THEN "std_cooldown"
    ELSE IF WordCount(transcript_buffer) > MIN_WORDS_FOR_GUIDANCE
    THEN "std_fire"
    ELSE "std_wait"

\* the branch taken were the hot cooldown as long as the dedup window
TriggerDecision_LongHotCooldown(latest_transcript, is_final) ==
    IF generating_guidance THEN "generating"
    ELSE IF HotTrigger[latest_transcript]
    THEN IF now - last_guidance_time < DEDUP_WINDOW
         THEN "hot_cooldown"
         ELSE IF is_semantic_duplicate(latest_transcript).result
         THEN "duplicate"
         ELSE "hot_fire"
    ELSE IF ~is_final THEN "interim"
    ELSE IF now - last_guidance_time < GUIDANCE_COOLDOWN_SECONDS
    THEN "std_cooldown"
    ELSE IF WordCount(transcript_buffer) > MIN_WORDS_FOR_GUIDANCE
    THEN "std_fire"
    ELSE "std_wait"

\* the branch taken were the word threshold not strict
TriggerDecision_ThresholdNotStrict(latest_transcript, is_final) ==
    IF generating_guidance THEN "generating"
    ELSE IF HotTrigger[latest_transcript]
    THEN IF now - last_guidance_time < HOT_TRIGGER_COOLDOWN_SECONDS
         THEN "hot_cooldown"
         ELSE IF is_semantic_duplicate(latest_transcript).result
         THEN "duplicate"
         ELSE "hot_fire"
    ELSE IF ~is_final THEN "interim"
    ELSE IF now - last_guidance_time < GUIDANCE_COOLDOWN_SECONDS
    THEN "std_cooldown"
    ELSE IF WordCount(transcript_buffer) >= MIN_WORDS_FOR_GUIDANCE
    THEN "std_fire"
    ELSE "std_wait"

\* the branch taken were the flag not tested at the head of the check
TriggerDecision_NoFlagGate(latest_transcript, is_final) ==
    IF HotTrigger[latest_transcript]
    THEN IF now - last_guidance_time < HOT_TRIGGER_COOLDOWN_SECONDS
         THEN "hot_cooldown"
         ELSE IF is_semantic_duplicate(latest_transcript).result
         THEN "duplicate"
         ELSE "hot_fire"
    ELSE IF ~is_final THEN "interim"
    ELSE IF now - last_guidance_time < GUIDANCE_COOLDOWN_SECONDS
    THEN "std_cooldown"
    ELSE IF WordCount(transcript_buffer) > MIN_WORDS_FOR_GUIDANCE
    THEN "std_fire"
    ELSE "std_wait"

\* the branch taken were the word count tested on interim transcripts too
TriggerDecision_InterimCounted(latest_transcript, is_final) ==
    IF generating_guidance THEN "generating"
    ELSE IF HotTrigger[latest_transcript]
    THEN IF now - last_guidance_time < HOT_TRIGGER_COOLDOWN_SECONDS
         THEN "hot_cooldown"
         ELSE IF is_semantic_duplicate(latest_transcript).result
         THEN "duplicate"
         ELSE "hot_fire"
    ELSE IF now - last_guidance_time < GUIDANCE_COOLDOWN_SECONDS
    THEN "std_cooldown"
    ELSE IF WordCount(transcript_buffer) > MIN_WORDS_FOR_GUIDANCE
    THEN "std_fire"
    ELSE "std_wait"

\* _check_for_guidance_trigger: the branch taken
TriggerDecision(latest_transcript, is_final) ==
    IF generating_guidance THEN "generating"
    ELSE IF HotTrigger[latest_transcript]
    THEN IF now - last_guidance_time < HOT_TRIGGER_COOLDOWN_SECONDS
         THEN "hot_cooldown"
         ELSE IF is_semantic_duplicate(latest_transcript).result
         THEN "duplicate"
         ELSE "hot_fire"
    ELSE IF ~is_final THEN "interim"
    ELSE IF now - last_guidance_time < GUIDANCE_COOLDOWN_SECONDS
    THEN "std_cooldown"
    ELSE IF WordCount(transcript_buffer) > MIN_WORDS_FOR_GUIDANCE
    THEN "std_fire"
    ELSE "std_wait"

\* the effect were the trigger state stamped by _generate_guidance only
\* and not at the dispatch
check_for_guidance_trigger_NoStamp(latest_transcript, is_final, queue) ==
    LET decision == TriggerDecision(latest_transcript, is_final) IN
    CASE decision = "hot_fire" ->
            /\ transcript_buffer' =
                 IF Strip(latest_transcript) # "" THEN latest_transcript
                 ELSE transcript_buffer
            /\ loopQueue' = schedule_async(queue, GenerateCoro)
            /\ UNCHANGED << last_guidance_time, last_trigger_text >>
      [] decision = "std_fire" ->
            /\ loopQueue' = schedule_async(queue, GenerateCoro)
            /\ UNCHANGED << last_guidance_time, last_trigger_text,
                            transcript_buffer >>
      [] decision = "duplicate" ->
            /\ last_trigger_text' = is_semantic_duplicate(latest_transcript).last_trigger_text
            /\ loopQueue' = queue
            /\ UNCHANGED << last_guidance_time, transcript_buffer >>
      [] OTHER ->
            /\ loopQueue' = queue
            /\ UNCHANGED << last_guidance_time, last_trigger_text,
                            transcript_buffer >>

\* the effect were the trigger's text stamped at the dispatch and its time
\* left to _generate_guidance
check_for_guidance_trigger_TextOnly(latest_transcript, is_final, queue) ==
    LET decision == TriggerDecision(latest_transcript, is_final) IN
    CASE decision = "hot_fire" ->
            /\ last_trigger_text' = latest_transcript
            /\ transcript_buffer' =
                 IF Strip(latest_transcript) # "" THEN latest_transcript
                 ELSE transcript_buffer
            /\ loopQueue' = schedule_async(queue, GenerateCoro)
            /\ UNCHANGED last_guidance_time
      [] decision = "std_fire" ->
            /\ loopQueue' = schedule_async(queue, GenerateCoro)
            /\ UNCHANGED << last_guidance_time, last_trigger_text,
                            transcript_buffer >>
      [] decision = "duplicate" ->
            /\ last_trigger_text' = is_semantic_duplicate(latest_transcript).last_trigger_text
            /\ loopQueue' = queue
            /\ UNCHANGED << last_guidance_time, transcript_buffer >>
      [] OTHER ->
            /\ loopQueue' = queue
            /\ UNCHANGED << last_guidance_time, last_trigger_text,
                            transcript_buffer >>

\* _check_for_guidance_trigger: its effect on the session
check_for_guidance_trigger(latest_transcript, is_final, queue) ==
    LET decision == TriggerDecision(latest_transcript, is_final) IN
    CASE decision = "hot_fire" ->
            /\ last_guidance_time' = now
            /\ last_trigger_text' = latest_transcript
            /\ transcript_buffer' =
                 IF Strip(latest_transcript) # "" THEN latest_transcript
                 ELSE transcript_buffer
            /\ loopQueue' = schedule_async(queue, GenerateCoro)
      [] decision = "std_fire" ->
            /\ last_guidance_time' = now
            /\ loopQueue' = schedule_async(queue, GenerateCoro)
            /\ UNCHANGED << last_trigger_text, transcript_buffer >>
      [] decision = "duplicate" ->
            /\ last_trigger_text' = is_semantic_duplicate(latest_transcript).last_trigger_text
            /\ loopQueue' = queue
            /\ UNCHANGED << last_guidance_time, transcript_buffer >>
      [] OTHER ->
            /\ loopQueue' = queue
            /\ UNCHANGED << last_guidance_time, last_trigger_text,
                            transcript_buffer >>

\* _handle_transcript up to and including the trigger check (lines 245-266)
HandleTranscript(transcript, is_final) ==
    /\ provider.pc = "idle"
    /\ delivered < env.events
    /\ transcript # ""
    /\ check_for_guidance_trigger(transcript, is_final,
                                  schedule_async(loopQueue, TranscriptCoro))
    /\ delivered' = delivered + 1
    /\ provider' = IF is_final THEN [pc |-> "append", text |-> transcript]
                   ELSE ProviderIdle
    /\ hot_fired' = IF TriggerDecision(transcript, is_final) = "hot_fire"
                    THEN [time |-> now, text |-> transcript]
                    ELSE hot_fired
    /\ UNCHANGED << telnyx, lifecycle, failures, env, now, ticks, rag_engine, generating_guidance,
                    notified, gens, invoked, sent >>

\* _handle_transcript, lines 268-270: a final transcript joins the buffer
AppendFinal ==
    /\ provider.pc = "append"
    /\ transcript_buffer' = transcript_buffer \o " " \o provider.text
    /\ provider' = ProviderIdle
    /\ UNCHANGED << hot_fired, telnyx, lifecycle, failures, env, now, ticks, rag_engine, last_guidance_time,
                    last_trigger_text, generating_guidance, loopQueue, notified, gens,
                    delivered, invoked, sent >>

\* ------------------------------------------------------------------------
\* Event loop: _generate_guidance and _do_generate_guidance
\* ------------------------------------------------------------------------
\* The loop thread is inside a coroutine's synchronous section only while
\* a generation sits in the backend's blocking iterator (pc = "iter"):
\* every other section of a coroutine is one step.  While it does, the
\* loop runs no other callback and no timer.
LoopFree == loop_running /\ \A i \in DOMAIN gens : gens[i].pc # "iter"

RemoveAt(seq, i) == SubSeq(seq, 1, i - 1) \o SubSeq(seq, i + 1, Len(seq))

\* on_transcript runs on the loop: the transcript reaches the client
SendTranscript ==
    /\ loopQueue # << >>
    /\ Head(loopQueue).kind = "transcript"
    /\ LoopFree
    /\ loopQueue' = Tail(loopQueue)
    /\ notified' = notified + 1
    /\ UNCHANGED << hot_fired, telnyx, lifecycle, failures, env, now, ticks, rag_engine, transcript_buffer,
                    last_guidance_time, last_trigger_text, generating_guidance,
                    provider, gens, delivered, invoked, sent >>

\* the guards without the test of the flag
generate_guidance_guard_NoFlagTest ==
    IF ~rag_engine THEN "no_rag_engine"
    ELSE IF Strip(transcript_buffer) = "" THEN "empty_buffer"
    ELSE "started"

\* _generate_guidance, lines 421-430: the guards
generate_guidance_guard ==
    IF ~rag_engine THEN "no_rag_engine"
    ELSE IF Strip(transcript_buffer) = "" THEN "empty_buffer"
    ELSE IF generating_guidance THEN "already_generating"
    ELSE "started"

\* lines 547 and 553: the excerpt of the buffer that goes with a guidance
trigger_excerpt ==
    IF Len(transcript_buffer) > 100 THEN Suffix(transcript_buffer, 100)
    ELSE transcript_buffer

\* the dict handed to on_guidance; elapsed is the time since the
\* generation was invoked, trigger the excerpt of the buffer the event is
\* given ("" for the events that have none)
GuidanceEvent(type, g, chunk, full_text) ==
    [type |-> type, gen |-> g.id,
     elapsed |-> now - (g.deadline - GUIDANCE_TIMEOUT_SECONDS),
     chunk |-> chunk, full_text |-> full_text,
     trigger |-> CASE type = "guidance_complete" -> trigger_excerpt
                   [] type = "price_objection" -> Suffix(transcript_buffer, 100)
                   [] OTHER -> ""]

\* CallStateMachine.record_objection: the objection log it leaves
sm_record_objection(m, kind, excerpt) ==
    [m EXCEPT !.objections = Append(@, [kind |-> kind, excerpt |-> excerpt])]

\* CallStateMachine.record_guidance: the guidance history it leaves
sm_record_guidance(m, text, trigger) ==
    [m EXCEPT !.guidance = Append(@, [guidance |-> text, trigger |-> trigger])]

\* lines 479-481: the objection is recorded when there is a state machine
record_objection(m) ==
    IF m # NoStateMachine
    THEN sm_record_objection(m, "price", Suffix(transcript_buffer, 200))
    ELSE m

\* lines 543-548: the guidance is recorded when there is a state machine
record_guidance(m, full_text) ==
    IF m # NoStateMachine
    THEN sm_record_guidance(m, full_text, trigger_excerpt)
    ELSE m

\* lines 483-502: the backend is handed the buffer as it is now, and the
\* body goes on to read the stream
InvokeBackend(g) == [g EXCEPT !.pc = "iter", !.prompt = transcript_buffer]

\* the body were the objection never recorded
StartBody_NoRecord(g, out, price, suspend) ==
    LET b == [g EXCEPT !.last_send_time = now] IN
    IF price
    THEN [g |-> IF suspend THEN [b EXCEPT !.pc = "await_price"]
                ELSE InvokeBackend(b),
          sent |-> Append(out, GuidanceEvent("price_objection", b, "", "")),
          machine |-> state_machine]
    ELSE [g |-> InvokeBackend(b), sent |-> out,
          machine |-> state_machine]

\* _do_generate_guidance, lines 463-502: the body's locals, the answer of
\* the price-objection classifier, its event and, once on_guidance
\* returned, its record in the state machine, then the backend's stream
StartBody(g, out, price, suspend) ==
    LET b == [g EXCEPT !.last_send_time = now] IN
    IF price
    THEN [g |-> IF suspend THEN [b EXCEPT !.pc = "await_price"]
                ELSE InvokeBackend(b),
          sent |-> Append(out, GuidanceEvent("price_objection", b, "", "")),
          machine |-> IF suspend THEN state_machine
                      ELSE record_objection(state_machine)]
    ELSE [g |-> InvokeBackend(b), sent |-> out,
          machine |-> state_machine]

\* a generation past the guards: the locals of its body, the deadline of
\* its wait_for, prompt, the buffer its backend was handed ("" until it
\* is), and heard, the transcript callbacks delivered before it started
NewGeneration(id) ==
    [id |-> id, pc |-> "created",
     deadline |-> now + GUIDANCE_TIMEOUT_SECONDS,
     full_text |-> "", batch_buffer |-> "", first_chunk |-> TRUE,
     last_send_time |-> 0, send_now |-> 0, yielded |-> 0, prompt |-> "",
     heard |-> delivered]

\* _generate_guidance starts on the loop (lines 419-443): the guards, the
\* flag, asyncio.wait_for arming its timer, and the body up to its first
\* suspension or its first read of the backend's stream
GenerateGuidanceStart(price, suspend) ==
    /\ loopQueue # << >>
    /\ Head(loopQueue).kind = "generate"
    /\ LoopFree
    /\ price \in env.price
    /\ suspend \in env.suspend
    /\ loopQueue' = Tail(loopQueue)
    /\ invoked' = Append(invoked, generate_guidance_guard)
    /\ IF generate_guidance_guard = "started"
       THEN LET r == StartBody(NewGeneration(Len(invoked) + 1), sent, price, suspend) IN
            /\ generating_guidance' = TRUE
            /\ gens' = Append(gens, r.g)
            /\ sent' = r.sent
            /\ state_machine' = r.machine
       ELSE UNCHANGED << generating_guidance, gens, sent, state_machine >>
    /\ UNCHANGED << hot_fired, telnyx, transport, failures, env, now, ticks, rag_engine, transcript_buffer,
                    last_guidance_time, last_trigger_text, provider,
                    notified, delivered >>

\* _generate_guidance starts on the loop and detect_price_objection raises
\* (line 473): the except of lines 561-565 ends the body with no event
ClassifierRaises ==
    /\ loopQueue # << >>
    /\ Head(loopQueue).kind = "generate"
    /\ LoopFree
    /\ generate_guidance_guard = "started"
    /\ loopQueue' = Tail(loopQueue)
    /\ invoked' = Append(invoked, generate_guidance_guard)
    /\ generating_guidance' = TRUE
    /\ gens' = Append(gens, [NewGeneration(Len(invoked) + 1) EXCEPT
                                !.pc = "returned", !.last_send_time = now])
    /\ failures' = failures + 1
    /\ UNCHANGED << hot_fired, telnyx, lifecycle, env, now, ticks, rag_engine, transcript_buffer,
                    last_guidance_time, last_trigger_text, provider,
                    notified, delivered, sent >>

\* the completion were it signalled whether or not there is any text
SendCompletion_EmptyToo(g, out, suspend) ==
    [g |-> [g EXCEPT !.pc = IF suspend THEN "await_complete" ELSE "returned"],
     sent |-> Append(out, GuidanceEvent("guidance_complete", g, "", g.full_text)),
     machine |-> record_guidance(state_machine, g.full_text)]

\* _do_generate_guidance, lines 539-559: the record in the state machine
\* and the completion signal
SendCompletion(g, out, suspend) ==
    IF g.full_text # ""
    THEN [g |-> [g EXCEPT !.pc = IF suspend THEN "await_complete" ELSE "returned"],
          sent |-> Append(out, GuidanceEvent("guidance_complete", g, "", g.full_text)),
          machine |-> record_guidance(state_machine, g.full_text)]
    ELSE [g |-> [g EXCEPT !.pc = "returned"], sent |-> out,
          machine |-> state_machine]

\* the remainder were the guidance recorded with the flush and not with
\* the completion
SendRemainder_RecordsAtFlush(g, out, suspendFlush, suspendComplete) ==
    IF g.batch_buffer # ""
    THEN LET flushed == Append(out, GuidanceEvent("guidance_chunk", g,
                                                  g.batch_buffer, g.full_text))
         IN  IF suspendFlush
             THEN [g |-> [g EXCEPT !.pc = "await_flush"], sent |-> flushed,
                   machine |-> record_guidance(state_machine, g.full_text)]
             ELSE SendCompletion(g, flushed, suspendComplete)
    ELSE SendCompletion(g, out, suspendComplete)

\* _do_generate_guidance, lines 530-537: the remainder of the batch
SendRemainder(g, out, suspendFlush, suspendComplete) ==
    IF g.batch_buffer # ""
    THEN LET flushed == Append(out, GuidanceEvent("guidance_chunk", g,
                                                  g.batch_buffer, g.full_text))
         IN  IF suspendFlush
             THEN [g |-> [g EXCEPT !.pc = "await_flush"], sent |-> flushed,
                   machine |-> state_machine]
             ELSE SendCompletion(g, flushed, suspendComplete)
    ELSE SendCompletion(g, out, suspendComplete)

\* the locals after a chunk were the batch kept and not emptied
AfterChunkSent_BatchKept(g) ==
    [g EXCEPT !.last_send_time = g.send_now,
              !.first_chunk = FALSE, !.pc = "iter"]

\* lines 526-528, after the chunk's on_guidance returned
AfterChunkSent(g) ==
    [g EXCEPT !.batch_buffer = "", !.last_send_time = g.send_now,
              !.first_chunk = FALSE, !.pc = "iter"]

\* the batching test were the interval not waited for
ShouldSendBatch_NoInterval(first_chunk, elapsed) ==
    first_chunk \/ elapsed >= 0

\* the batching test of line 514
ShouldSendBatch(first_chunk, elapsed) ==
    first_chunk \/ elapsed >= BATCH_INTERVAL

\* _do_generate_guidance, lines 506-528: a non-empty fragment
StreamChunk(g, chunk, suspend) ==
    LET got == [g EXCEPT !.full_text = g.full_text \o chunk,
                         !.batch_buffer = g.batch_buffer \o chunk,
                         !.send_now = now,
                         !.yielded = g.yielded + 1]
    IN  IF ShouldSendBatch(got.first_chunk, now - got.last_send_time)
        THEN [g |-> IF suspend THEN [got EXCEPT !.pc = "await_chunk"]
                    ELSE AfterChunkSent(got),
              sent |-> Append(sent, GuidanceEvent(
                          IF got.first_chunk THEN "guidance_start" ELSE "guidance_chunk",
                          got, got.batch_buffer, got.full_text))]
        ELSE [g |-> got, sent |-> sent]

\* for chunk in guidance_stream: the backend's blocking iterator yields
BackendYields(i, chunk, suspend) ==
    /\ gens[i].pc = "iter"
    /\ gens[i].yielded < env.yields
    /\ chunk \in env.fragments
    /\ suspend \in env.suspend
    /\ LET r == IF chunk # ""
                THEN StreamChunk(gens[i], chunk, suspend)
                ELSE [g |-> [gens[i] EXCEPT !.yielded = gens[i].yielded + 1],
                      sent |-> sent]
       IN  /\ gens' = [gens EXCEPT ![i] = r.g]
           /\ sent' = r.sent
    /\ UNCHANGED << hot_fired, telnyx, lifecycle, failures, env, now, ticks, rag_engine, transcript_buffer,
                    last_guidance_time, last_trigger_text, generating_guidance,
                    provider, loopQueue, notified, delivered, invoked >>

\* the backend's iterator is exhausted: lines 530-559
BackendEnds(i, suspendFlush, suspendComplete) ==
    /\ gens[i].pc = "iter"
    /\ suspendFlush \in env.suspend
    /\ suspendComplete \in env.suspend
    /\ LET r == SendRemainder(gens[i], sent, suspendFlush, suspendComplete) IN
       /\ gens' = [gens EXCEPT ![i] = r.g]
       /\ sent' = r.sent
       /\ state_machine' = r.machine
    /\ UNCHANGED << hot_fired, telnyx, transport, failures, env, now, ticks, rag_engine, transcript_buffer,
                    last_guidance_time, last_trigger_text, generating_guidance,
                    provider, loopQueue, notified, delivered, invoked >>

\* the backend raises from its iterator: except Exception, lines 561-565
BackendRaises(i) ==
    /\ gens[i].pc = "iter"
    /\ gens' = [gens EXCEPT ![i].pc = "returned"]
    /\ failures' = failures + 1
    /\ UNCHANGED << hot_fired, telnyx, lifecycle, env, now, ticks, rag_engine, transcript_buffer,
                    last_guidance_time, last_trigger_text, generating_guidance,
                    provider, loopQueue, notified, delivered, invoked, sent >>

\* an on_guidance call that suspended returns.  When the timer is due as
\* well, which of the two callbacks the loop runs first depends on how
\* on_guidance suspended: either may happen.
Resume(i, suspend) ==
    /\ gens[i].pc \in {"await_price", "await_chunk", "await_flush", "await_complete"}
    /\ LoopFree
    /\ suspend \in env.suspend
    /\ LET g == gens[i]
           r == CASE g.pc = "await_price" ->
                        [g |-> InvokeBackend(g), sent |-> sent,
                         machine |-> record_objection(state_machine)]
                  [] g.pc = "await_chunk" ->
                        [g |-> AfterChunkSent(g), sent |-> sent,
                         machine |-> state_machine]
                  [] g.pc = "await_flush" -> SendCompletion(g, sent, suspend)
                  [] g.pc = "await_complete" ->
                        [g |-> [g EXCEPT !.pc = "returned"], sent |-> sent,
                         machine |-> state_machine]
       IN  /\ gens' = [gens EXCEPT ![i] = r.g]
           /\ sent' = r.sent
           /\ state_machine' = r.machine
    /\ UNCHANGED << hot_fired, telnyx, transport, failures, env, now, ticks, rag_engine, transcript_buffer,
                    last_guidance_time, last_trigger_text, generating_guidance,
                    provider, loopQueue, notified, delivered, invoked >>

\* the end of _generate_guidance were the flag reset in the try and not in
\* the finally
GenerateGuidanceFinish_FlagKept(i) ==
    /\ gens[i].pc = "returned"
    /\ LoopFree
    /\ transcript_buffer' = ""
    /\ generating_guidance' = (failures > 0)
    /\ gens' = RemoveAt(gens, i)
    /\ UNCHANGED << hot_fired, telnyx, lifecycle, failures, env, now, ticks, rag_engine,
                    last_guidance_time, last_trigger_text, provider, loopQueue,
                    notified, delivered, invoked, sent >>

\* the end of _generate_guidance were a generation that produced no
\* guidance_complete dispatched again
GenerateGuidanceFinish_Retry(i) ==
    /\ gens[i].pc = "returned"
    /\ LoopFree
    /\ transcript_buffer' = ""
    /\ generating_guidance' = FALSE
    /\ gens' = RemoveAt(gens, i)
    /\ loopQueue' =
          IF \E k \in DOMAIN sent : /\ sent[k].gen = gens[i].id
                                    /\ sent[k].type = "guidance_complete"
          THEN loopQueue
          ELSE schedule_async(loopQueue, [kind |-> "generate"])
    /\ UNCHANGED << hot_fired, telnyx, lifecycle, failures, env, now, ticks, rag_engine,
                    last_guidance_time, last_trigger_text, provider,
                    notified, delivered, invoked, sent >>

\* wait_for returned (lines 445-459): the buffer is cleared, the flag reset
GenerateGuidanceFinish(i) ==
    /\ gens[i].pc = "returned"
    /\ LoopFree
    /\ transcript_buffer' = ""
    /\ generating_guidance' = FALSE
    /\ gens' = RemoveAt(gens, i)
    /\ UNCHANGED << hot_fired, telnyx, lifecycle, failures, env, now, ticks, rag_engine, last_guidance_time,
                    last_trigger_text, provider, loopQueue, notified, delivered,
                    invoked, sent >>

\* the timeout were the buffer left as it is
GenerateGuidanceTimeout_BufferKept(i) ==
    /\ gens[i].pc \in {"await_price", "await_chunk", "await_flush", "await_complete"}
    /\ LoopFree
    /\ now >= gens[i].deadline
    /\ generating_guidance' = FALSE
    /\ gens' = RemoveAt(gens, i)
    /\ UNCHANGED << hot_fired, telnyx, lifecycle, failures, env, now, ticks, rag_engine,
                    last_guidance_time, last_trigger_text, provider, loopQueue,
                    notified, delivered, invoked, sent, transcript_buffer >>

\* wait_for's timer fires while the body is suspended (lines 448-459): the
\* body is cancelled where it waits
GenerateGuidanceTimeout(i) ==
    /\ gens[i].pc \in {"await_price", "await_chunk", "await_flush", "await_complete"}
    /\ LoopFree
    /\ now >= gens[i].deadline
    /\ transcript_buffer' = ""
    /\ generating_guidance' = FALSE
    /\ gens' = RemoveAt(gens, i)
    /\ UNCHANGED << hot_fired, telnyx, lifecycle, failures, env, now, ticks, rag_engine, last_guidance_time,
                    last_trigger_text, provider, loopQueue, notified, delivered,
                    invoked, sent >>

\* ------------------------------------------------------------------------
\* The session's life cycle: audio, errors, close, stop
\* ------------------------------------------------------------------------
\* a call of the client's handler runs on the loop
ClientCalls ==
    /\ LoopFree
    /\ client.calls < env.calls

\* the usage log were the session's audio logged whether or not there is any
log_session_usage_NoAudioTest ==
    Append(usage_log,
           (total_audio_bytes * 1000) \div (SAMPLE_RATE * BYTES_PER_SAMPLE * CHANNELS))

\* _log_session_usage: the usage log it leaves, durations in ms
log_session_usage ==
    IF total_audio_bytes = 0 THEN usage_log
    ELSE Append(usage_log,
                (total_audio_bytes * 1000) \div (SAMPLE_RATE * BYTES_PER_SAMPLE * CHANNELS))

\* send_audio were is_running not tested
SendAudio_NoRunningTest(n) ==
    /\ ClientCalls
    /\ ~client.sending
    /\ n \in AudioChunks
    /\ IF ~connection
       THEN /\ client' = [client EXCEPT !.calls = client.calls + 1]
            /\ UNCHANGED total_audio_bytes
       ELSE /\ total_audio_bytes' = total_audio_bytes + n
            /\ client' = [client EXCEPT !.calls = client.calls + 1,
                                        !.forwarded = client.forwarded + 1,
                                        !.sending = TRUE]
    /\ UNCHANGED << hot_fired, telnyx, beside, env, now, ticks, rag_engine, transcript_buffer,
                    last_guidance_time, last_trigger_text, generating_guidance,
                    provider, loopQueue, notified, gens, delivered, invoked,
                    sent, failures, is_running, connection, loop_running,
                    state_machine, usage_log, errors_notified >>

\* send_audio up to its await (lines 155-166): the guard, the byte count,
\* the chunk handed to connection.send on the executor
SendAudio(n) ==
    /\ ClientCalls
    /\ ~client.sending
    /\ n \in AudioChunks
    /\ IF ~connection \/ ~is_running
       THEN /\ client' = [client EXCEPT !.calls = client.calls + 1]
            /\ UNCHANGED total_audio_bytes
       ELSE /\ total_audio_bytes' = total_audio_bytes + n
            /\ client' = [client EXCEPT !.calls = client.calls + 1,
                                        !.forwarded = client.forwarded + 1,
                                        !.sending = TRUE]
    /\ UNCHANGED << hot_fired, telnyx, beside, env, now, ticks, rag_engine, transcript_buffer,
                    last_guidance_time, last_trigger_text, generating_guidance,
                    provider, loopQueue, notified, gens, delivered, invoked,
                    sent, failures, is_running, connection, loop_running,
                    state_machine, usage_log, errors_notified >>

\* send_audio after its await were a timeout or an exception swallowed
\* with the session left running
SendAudioReturns_FailureIgnored(ok) ==
    /\ client.sending
    /\ LoopFree
    /\ client' = [client EXCEPT !.sending = FALSE]
    /\ UNCHANGED << hot_fired, telnyx, beside, env, now, ticks, rag_engine, transcript_buffer,
                    last_guidance_time, last_trigger_text, generating_guidance,
                    provider, loopQueue, notified, gens, delivered, invoked,
                    sent, failures, is_running, connection, loop_running,
                    total_audio_bytes, state_machine, usage_log,
                    errors_notified >>

\* send_audio after its await (lines 169-174): a timeout or an exception
\* of connection.send marks the session non-running
SendAudioReturns(ok) ==
    /\ client.sending
    /\ LoopFree
    /\ client' = [client EXCEPT !.sending = FALSE]
    /\ is_running' = (is_running /\ ok)
    /\ UNCHANGED << hot_fired, telnyx, beside, env, now, ticks, rag_engine, transcript_buffer,
                    last_guidance_time, last_trigger_text, generating_guidance,
                    provider, loopQueue, notified, gens, delivered, invoked,
                    sent, failures, connection, loop_running,
                    total_audio_bytes, state_machine, usage_log,
                    errors_notified >>

\* stop() were it to cancel the generation in flight
Stop_CancelsGeneration ==
    /\ ClientCalls
    /\ is_running' = FALSE
    /\ usage_log' = log_session_usage
    /\ client' = [client EXCEPT !.calls = client.calls + 1,
                                !.stopping = client.stopping +
                                             (IF connection THEN 1 ELSE 0),
                                !.busy = generating_guidance]
    /\ gens' = << >>
    /\ generating_guidance' = FALSE
    /\ UNCHANGED << hot_fired, telnyx, beside, env, now, ticks, rag_engine, transcript_buffer,
                    last_guidance_time, last_trigger_text,
                    provider, loopQueue, notified, delivered, invoked,
                    sent, failures, connection, loop_running,
                    total_audio_bytes, state_machine, errors_notified >>

\* stop() up to its await (lines 176-192): the flag, the usage, and the
\* connection's finish handed to the executor
Stop ==
    /\ ClientCalls
    /\ is_running' = FALSE
    /\ usage_log' = log_session_usage
    /\ client' = [client EXCEPT !.calls = client.calls + 1,
                                !.stopping = client.stopping +
                                             (IF connection THEN 1 ELSE 0),
                                !.busy = generating_guidance]
    /\ UNCHANGED << hot_fired, telnyx, beside, env, now, ticks, rag_engine, transcript_buffer,
                    last_guidance_time, last_trigger_text, generating_guidance,
                    provider, loopQueue, notified, gens, delivered, invoked,
                    sent, failures, connection, loop_running,
                    total_audio_bytes, state_machine, errors_notified >>

\* stop() after its await (lines 200-205): the connection is dropped
StopReturns ==
    /\ client.stopping > 0
    /\ LoopFree
    /\ connection' = FALSE
    /\ client' = [client EXCEPT !.stopping = client.stopping - 1]
    /\ UNCHANGED << hot_fired, telnyx, beside, env, now, ticks, rag_engine, transcript_buffer,
                    last_guidance_time, last_trigger_text, generating_guidance,
                    provider, loopQueue, notified, gens, delivered, invoked,
                    sent, failures, is_running, loop_running,
                    total_audio_bytes, state_machine, usage_log,
                    errors_notified >>

\* _handle_close: the provider reports the connection closed, on its own
\* account or because stop() finished it
HandleClose ==
    /\ ~client.closed
    /\ is_running' = FALSE
    /\ usage_log' = log_session_usage
    /\ client' = [client EXCEPT !.closed = TRUE]
    /\ UNCHANGED << hot_fired, telnyx, beside, env, now, ticks, rag_engine, transcript_buffer,
                    last_guidance_time, last_trigger_text, generating_guidance,
                    provider, loopQueue, notified, gens, delivered, invoked,
                    sent, failures, connection, loop_running,
                    total_audio_bytes, state_machine, errors_notified >>

\* on_transcript({"type": "error", ...})
ErrorCoro == [kind |-> "error"]

\* _handle_error: an incident of the provider, on the provider's thread
HandleError ==
    /\ client.calls < env.calls
    /\ is_running' = FALSE
    /\ loopQueue' = schedule_async(loopQueue, ErrorCoro)
    /\ client' = [client EXCEPT !.calls = client.calls + 1]
    /\ UNCHANGED << hot_fired, telnyx, beside, env, now, ticks, rag_engine, transcript_buffer,
                    last_guidance_time, last_trigger_text, generating_guidance,
                    provider, notified, gens, delivered, invoked,
                    sent, failures, connection, loop_running,
                    total_audio_bytes, state_machine, usage_log,
                    errors_notified >>

\* on_transcript runs on the loop: the error event reaches the client
SendError ==
    /\ loopQueue # << >>
    /\ Head(loopQueue).kind = "error"
    /\ LoopFree
    /\ loopQueue' = Tail(loopQueue)
    /\ errors_notified' = errors_notified + 1
    /\ UNCHANGED << hot_fired, telnyx, beside, env, now, ticks, rag_engine, transcript_buffer,
                    last_guidance_time, last_trigger_text, generating_guidance,
                    provider, notified, gens, delivered, invoked,
                    sent, failures, is_running, connection, loop_running,
                    total_audio_bytes, state_machine, client, usage_log >>

\* _handle_transcript with no result, no alternative or an empty text
\* (lines 248-256): nothing is done
HandleEmptyTranscript ==
    /\ provider.pc = "idle"
    /\ delivered < env.events
    /\ delivered' = delivered + 1
    /\ UNCHANGED << hot_fired, telnyx, lifecycle, failures, env, now, ticks, rag_engine,
                    transcript_buffer, last_guidance_time, last_trigger_text,
                    generating_guidance, provider, loopQueue, notified, gens,
                    invoked, sent >>

\* ------------------------------------------------------------------------
\* The call's state machine: update_context, apply_down_close
\* ------------------------------------------------------------------------
\* CallStateMachine(session_id, is_phone_call), the id-th one constructed
NewStateMachine(id, is_phone_call) ==
    [id |-> id, is_phone_call |-> is_phone_call, down_close_level |-> 0,
     objections |-> << >>, guidance |-> << >>]

\* CallStateMachine.apply_down_close: the machine it leaves and its result
sm_apply_down_close(m) ==
    IF m.down_close_level < MaxDownCloseLevel
    THEN [machine |-> [m EXCEPT !.down_close_level = m.down_close_level + 1],
          success |-> TRUE]
    ELSE [machine |-> m, success |-> FALSE]

\* update_context were a machine constructed on every call type
update_context_NoMachineTest(context_data) ==
    IF context_data.call_type \notin {"absent", ""}
    THEN [state_machine |-> NewStateMachine(
                                client.created + 1,
                                context_data.call_type \in
                                    {"phone", "phone_call", "appointment"}),
          created |-> client.created + 1]
    ELSE [state_machine |-> state_machine, created |-> client.created]

\* update_context, lines 585-604: the state machine it leaves and the
\* number of machines constructed so far
update_context(context_data) ==
    IF context_data.call_type \notin {"absent", ""}
       /\ state_machine = NoStateMachine
    THEN [state_machine |-> NewStateMachine(
                                client.created + 1,
                                context_data.call_type \in
                                    {"phone", "phone_call", "appointment"}),
          created |-> client.created + 1]
    ELSE [state_machine |-> state_machine, created |-> client.created]

\* update_context(context_data), called by the client's handler
UpdateContext(context_data) ==
    /\ ClientCalls
    /\ context_data \in Contexts
    /\ state_machine' = update_context(context_data).state_machine
    /\ client' = [client EXCEPT !.calls = client.calls + 1,
                                !.created = update_context(context_data).created,
                                !.call_type =
                                    IF context_data.call_type = "absent"
                                    THEN client.call_type
                                    ELSE context_data.call_type]
    /\ UNCHANGED << hot_fired, telnyx, beside, env, now, ticks, rag_engine, transcript_buffer,
                    last_guidance_time, last_trigger_text, generating_guidance,
                    provider, loopQueue, notified, gens, delivered, invoked,
                    sent, failures, is_running, connection, loop_running,
                    total_audio_bytes, usage_log, errors_notified >>

\* apply_down_close were the machine's answer not passed on
apply_down_close_ResultIgnored ==
    IF state_machine # NoStateMachine
    THEN [state_machine |-> sm_apply_down_close(state_machine).machine,
          result |-> TRUE]
    ELSE [state_machine |-> state_machine, result |-> FALSE]

\* apply_down_close, lines 606-613: the machine it leaves and what it
\* returns
apply_down_close ==
    IF state_machine # NoStateMachine
    THEN [state_machine |-> sm_apply_down_close(state_machine).machine,
          result |-> sm_apply_down_close(state_machine).success]
    ELSE [state_machine |-> state_machine, result |-> FALSE]

\* apply_down_close(), called by the client's handler
ApplyDownClose ==
    /\ ClientCalls
    /\ state_machine' = apply_down_close.state_machine
    /\ client' = [client EXCEPT !.calls = client.calls + 1,
                                !.result = IF apply_down_close.result
                                           THEN "True" ELSE "False"]
    /\ UNCHANGED << hot_fired, telnyx, beside, env, now, ticks, rag_engine, transcript_buffer,
                    last_guidance_time, last_trigger_text, generating_guidance,
                    provider, loopQueue, notified, gens, delivered, invoked,
                    sent, failures, is_running, connection, loop_running,
                    total_audio_bytes, usage_log, errors_notified >>

\* the loop stops running: the server shuts down
LoopStops ==
    /\ LoopFree
    /\ loop_running' = FALSE
    /\ UNCHANGED << hot_fired, telnyx, beside, env, now, ticks, rag_engine, transcript_buffer,
                    last_guidance_time, last_trigger_text, generating_guidance,
                    provider, loopQueue, notified, gens, delivered, invoked,
                    sent, failures, is_running, connection,
                    total_audio_bytes, state_machine, client, usage_log,
                    errors_notified >>

\* ------------------------------------------------------------------------
\* Time
\* ------------------------------------------------------------------------
\* the clock advances; _handle_transcript reads it once, so the trigger
\* check and the append that follows it see one reading
Tick(d) ==
    /\ d \in env.steps
    /\ provider.pc = "idle"
    /\ ticks < env.ticks
    /\ now' = now + d
    /\ ticks' = ticks + 1
    /\ UNCHANGED << hot_fired, telnyx, lifecycle, failures, env, rag_engine, transcript_buffer, last_guidance_time,
                    last_trigger_text, generating_guidance, provider,
                    loopQueue, notified, gens, delivered, invoked, sent >>

Next ==
    \/ \E t \in AllTexts, f \in BOOLEAN : t \in env.texts /\ HandleTranscript(t, f)
    \/ AppendFinal
    \/ SendTranscript
    \/ \E p \in BOOLEAN, s \in BOOLEAN : GenerateGuidanceStart(p, s)
    \/ ClassifierRaises
    \/ \E i \in DOMAIN gens, c \in AllFragments, s \in BOOLEAN : BackendYields(i, c, s)
    \/ \E i \in DOMAIN gens, s1 \in BOOLEAN, s2 \in BOOLEAN : BackendEnds(i, s1, s2)
    \/ \E i \in DOMAIN gens : BackendRaises(i)
    \/ \E i \in DOMAIN gens, s \in BOOLEAN : Resume(i, s)
    \/ \E i \in DOMAIN gens : GenerateGuidanceFinish(i)
    \/ \E i \in DOMAIN gens : GenerateGuidanceTimeout(i)
    \/ \E d \in AllSteps : Tick(d)

Spec == Init /\ [][Next]_vars

InitRace == Init /\ env = EnvRace
SpecRace == InitRace /\ [][Next]_vars

InitBurst == Init /\ env = EnvBurst
SpecBurst == InitBurst /\ [][Next]_vars

InitWindows == Init /\ env = EnvWindows
SpecWindows == InitWindows /\ [][Next]_vars

InitWords == Init /\ env = EnvWords
SpecWords == InitWords /\ [][Next]_vars

InitStream == Init /\ env = EnvStream
SpecStream == InitStream /\ [][Next]_vars

\* an objection repeated after a word-count trigger, in a call whose
\* backend answers every time and whose client takes every event at once:
\* no failure, no timeout, no suspension in on_guidance
NextDedup ==
    \/ \E t \in AllTexts, f \in BOOLEAN : t \in env.texts /\ HandleTranscript(t, f)
    \/ AppendFinal
    \/ SendTranscript
    \/ \E p \in BOOLEAN, s \in BOOLEAN : GenerateGuidanceStart(p, s)
    \/ \E i \in DOMAIN gens, c \in AllFragments, s \in BOOLEAN : BackendYields(i, c, s)
    \/ \E i \in DOMAIN gens, s1 \in BOOLEAN, s2 \in BOOLEAN : BackendEnds(i, s1, s2)
    \/ \E i \in DOMAIN gens : GenerateGuidanceFinish(i)
    \/ \E d \in AllSteps : Tick(d)

InitDedup == Init /\ env = EnvDedup /\ rag_engine
SpecDedup == InitDedup /\ [][NextDedup]_vars

\* ordinary conversation around a generation that ends one way or another
InitReset == Init /\ env = EnvReset /\ rag_engine
SpecReset == InitReset /\ [][Next]_vars

\* two objections and the stream of each
InitOrder == Init /\ env = EnvOrder /\ rag_engine
SpecOrder == InitOrder /\ [][Next]_vars

\* the session with its life cycle: what the client's handler calls and
\* what the provider reports besides transcripts
NextSession ==
    \/ Next
    \/ HandleEmptyTranscript
    \/ \E n \in AudioChunks : SendAudio(n)
    \/ \E ok \in BOOLEAN : SendAudioReturns(ok)
    \/ Stop
    \/ StopReturns
    \/ HandleClose
    \/ HandleError
    \/ SendError
    \/ LoopStops

InitSession == Init /\ env = EnvSession /\ rag_engine
SpecSession == InitSession /\ [][NextSession]_vars

\* the session with its state machine: the context updates and the
\* down-close button of the client
NextCoach ==
    \/ Next
    \/ \E c \in Contexts : UpdateContext(c)
    \/ ApplyDownClose

InitCoach == Init /\ env = EnvCoach /\ rag_engine
SpecCoach == InitCoach /\ [][NextCoach]_vars

\* the coached call with what its state machine records of a generation
InitHistory == Init /\ env = EnvHistory /\ rag_engine
SpecHistory == InitHistory /\ [][NextCoach]_vars

\* ------------------------------------------------------------------------
\* The call's other leg: AgentStreamHandler
\* ------------------------------------------------------------------------
\* all that is this session's transcriber's own
session == << env, now, ticks, rag_engine, transcript_buffer,
              last_guidance_time, last_trigger_text, generating_guidance,
              provider, loopQueue, notified, gens, delivered, invoked, sent,
              failures, is_running, connection, loop_running,
              total_audio_bytes, state_machine, client, usage_log,
              errors_notified, hot_fired >>

\* media.payload of a Telnyx message: "absent" when the key is missing,
\* the empty string, and the base64 text of one, two and three bytes
Payloads == {"absent", "", "QQ==", "QUI=", "QUJD"}

\* the Telnyx messages, as handle_telnyx_message reads them
Messages ==
    [event : {"connected", "start", "stop", "mark"}, payload : {"absent"}]
        \cup [event : {"media"}, payload : Payloads]

\* len(base64.b64decode(payload)) of a well-formed payload: three bytes to
\* every four characters, less the padding
b64decoded_len(payload) ==
    LET n == Len(payload)
        padding == IF n >= 2 /\ SubSeq(payload, n - 1, n) = "==" THEN 2
                   ELSE IF n >= 1 /\ Ch(payload, n) = "=" THEN 1
                   ELSE 0
    IN  (n \div 4) * 3 - padding

\* AgentStreamHandler.start
agent_start(a) ==
    [a EXCEPT !.is_running = TRUE,
              !.handled = Append(@, [event |-> "start()", payload |-> "absent"])]

\* AgentStreamHandler.stop
agent_stop(a) == [a EXCEPT !.is_running = FALSE]

\* handle_telnyx_message were the payload's own length counted
agent_handle_telnyx_message_EncodedLength(a, message) ==
    LET h == [a EXCEPT !.handled = Append(@, message)] IN
    CASE message.event = "media" ->
            IF message.payload \notin {"absent", ""}
            THEN [h EXCEPT !.total_audio_bytes = @ + Len(message.payload)]
            ELSE h
      [] message.event = "stop" -> agent_stop(h)
      [] OTHER -> h

\* AgentStreamHandler.handle_telnyx_message: the handler it leaves
agent_handle_telnyx_message(a, message) ==
    LET h == [a EXCEPT !.handled = Append(@, message)] IN
    CASE message.event = "media" ->
            IF message.payload \notin {"absent", ""}
            THEN [h EXCEPT !.total_audio_bytes =
                               @ + b64decoded_len(message.payload)]
            ELSE h
      [] message.event = "stop" -> agent_stop(h)
      [] OTHER -> h

\* remove_handler has stopped the handler: no message reaches it any more
AgentRemoved ==
    /\ agent.handled # << >>
    /\ agent.handled[Len(agent.handled)].event = "stop()"

\* get_or_create_agent_handler: the handler just constructed is started
AgentStart ==
    /\ agent.handled = << >>
    /\ agent' = agent_start(agent)
    /\ UNCHANGED << session, peer, telnyx >>

\* a message of the agent's stream reaches the handler
AgentHandleTelnyxMessage(message) ==
    /\ agent.handled # << >>
    /\ ~AgentRemoved
    /\ Len(agent.handled) <= MaxMessages
    /\ message \in Messages
    /\ agent' = agent_handle_telnyx_message(agent, message)
    /\ UNCHANGED << session, peer, telnyx >>

\* remove_handler: the handler is taken out of _agent_handlers and stopped
AgentStop ==
    /\ agent.handled # << >>
    /\ ~AgentRemoved
    /\ agent' = [agent_stop(agent) EXCEPT
                    !.handled = Append(@, [event |-> "stop()",
                                           payload |-> "absent"])]
    /\ UNCHANGED << session, peer, telnyx >>

NextAgent ==
    \/ AgentStart
    \/ \E m \in Messages : AgentHandleTelnyxMessage(m)
    \/ AgentStop

InitAgent == Init /\ env = EnvRace /\ rag_engine
SpecAgent == InitAgent /\ [][NextAgent]_vars

\* ------------------------------------------------------------------------
\* Another session: a second RealtimeTranscriber on the same loop
\* ------------------------------------------------------------------------
\* _is_semantic_duplicate of the transcriber p
peer_is_semantic_duplicate(p, new_text) ==
    IF p.last_trigger_text = ""
    THEN [result |-> FALSE, last_trigger_text |-> p.last_trigger_text]
    ELSE IF now - p.last_guidance_time > DEDUP_WINDOW
    THEN [result |-> FALSE, last_trigger_text |-> ""]
    ELSE [result |-> Similar[new_text, p.last_trigger_text],
          last_trigger_text |-> p.last_trigger_text]

\* the branch taken were _generating_guidance an attribute of the class,
\* the one flag of every session
peer_TriggerDecision_SharedFlag(p, latest_transcript, is_final) ==
    IF generating_guidance \/ p.generating_guidance THEN "generating"
    ELSE IF HotTrigger[latest_transcript]
    THEN IF now - p.last_guidance_time < HOT_TRIGGER_COOLDOWN_SECONDS
         THEN "hot_cooldown"
         ELSE IF peer_is_semantic_duplicate(p, latest_transcript).result
         THEN "duplicate"
         ELSE "hot_fire"
    ELSE IF ~is_final THEN "interim"
    ELSE IF now - p.last_guidance_time < GUIDANCE_COOLDOWN_SECONDS
    THEN "std_cooldown"
    ELSE IF WordCount(p.transcript_buffer) > MIN_WORDS_FOR_GUIDANCE
    THEN "std_fire"
    ELSE "std_wait"

\* _check_for_guidance_trigger of the transcriber p: the branch taken
peer_TriggerDecision(p, latest_transcript, is_final) ==
    IF p.generating_guidance THEN "generating"
    ELSE IF HotTrigger[latest_transcript]
    THEN IF now - p.last_guidance_time < HOT_TRIGGER_COOLDOWN_SECONDS
         THEN "hot_cooldown"
         ELSE IF peer_is_semantic_duplicate(p, latest_transcript).result
         THEN "duplicate"
         ELSE "hot_fire"
    ELSE IF ~is_final THEN "interim"
    ELSE IF now - p.last_guidance_time < GUIDANCE_COOLDOWN_SECONDS
    THEN "std_cooldown"
    ELSE IF WordCount(p.transcript_buffer) > MIN_WORDS_FOR_GUIDANCE
    THEN "std_fire"
    ELSE "std_wait"

\* _schedule_async(self._generate_guidance()) of the transcriber p
peer_schedule_generate(p) ==
    IF loop_running THEN [p EXCEPT !.queued = @ + 1] ELSE p

\* _handle_transcript of the transcriber p, lines 245-273: the trigger
\* check and, for a final transcript, the append
peer_handle_transcript(p, transcript, is_final) ==
    LET decision == peer_TriggerDecision(p, transcript, is_final)
        checked ==
            CASE decision = "hot_fire" ->
                    peer_schedule_generate(
                        [p EXCEPT !.last_guidance_time = now,
                                  !.last_trigger_text = transcript,
                                  !.transcript_buffer =
                                      IF Strip(transcript) # ""
                                      THEN transcript ELSE @])
              [] decision = "std_fire" ->
                    peer_schedule_generate(
                        [p EXCEPT !.last_guidance_time = now])
              [] decision = "duplicate" ->
                    [p EXCEPT !.last_trigger_text =
                        peer_is_semantic_duplicate(p, transcript).last_trigger_text]
              [] OTHER -> p
    IN  [checked EXCEPT !.transcript_buffer =
                            IF is_final THEN @ \o " " \o transcript ELSE @,
                        !.delivered = @ + 1]

\* the other session's provider delivers a transcript
PeerHandleTranscript(transcript, is_final) ==
    /\ peer.delivered < env.events
    /\ transcript \in env.texts
    /\ peer' = peer_handle_transcript(peer, transcript, is_final)
    /\ UNCHANGED << session, agent, telnyx >>

\* _generate_guidance of the other session starts on the loop, lines
\* 419-432: its guards and its flag
PeerGenerateGuidanceStart ==
    /\ peer.queued > 0
    /\ LoopFree
    /\ LET started == /\ rag_engine
                      /\ Strip(peer.transcript_buffer) # ""
                      /\ ~peer.generating_guidance
       IN  peer' = [peer EXCEPT !.queued = @ - 1,
                                !.generating_guidance = @ \/ started,
                                !.pc = IF started THEN "generating" ELSE @]
    /\ UNCHANGED << session, agent, telnyx >>

\* _generate_guidance of the other session ends, lines 445-459
PeerGenerateGuidanceEnds ==
    /\ peer.pc = "generating"
    /\ LoopFree
    /\ peer' = [peer EXCEPT !.transcript_buffer = "",
                            !.generating_guidance = FALSE,
                            !.pc = "idle"]
    /\ UNCHANGED << session, agent, telnyx >>

\* update_context of the other session, lines 585-593
PeerUpdateContext(context_data) ==
    /\ LoopFree
    /\ peer.calls < env.calls
    /\ context_data \in Contexts
    /\ peer' = [peer EXCEPT
                  !.calls = @ + 1,
                  !.state_machine =
                      IF context_data.call_type \notin {"absent", ""}
                         /\ @ = NoStateMachine
                      THEN NewStateMachine(
                               peer.calls + 1,
                               context_data.call_type \in
                                   {"phone", "phone_call", "appointment"})
                      ELSE @]
    /\ UNCHANGED << session, agent, telnyx >>

\* send_audio of the other session, lines 155-161
PeerSendAudio(n) ==
    /\ LoopFree
    /\ peer.calls < env.calls
    /\ n \in AudioChunks
    /\ peer' = [peer EXCEPT !.calls = @ + 1,
                            !.total_audio_bytes =
                                IF peer.is_running THEN @ + n ELSE @]
    /\ UNCHANGED << session, agent, telnyx >>

\* stop() of the other session, lines 176-179
PeerStop ==
    /\ LoopFree
    /\ peer.calls < env.calls
    /\ peer' = [peer EXCEPT !.calls = @ + 1, !.is_running = FALSE]
    /\ UNCHANGED << session, agent, telnyx >>

\* two sessions of one server
NextPair ==
    \/ Next
    \/ \E c \in Contexts : UpdateContext(c)
    \/ \E n \in AudioChunks : SendAudio(n)
    \/ \E ok \in BOOLEAN : SendAudioReturns(ok)
    \/ Stop
    \/ StopReturns
    \/ \E t \in AllTexts, f \in BOOLEAN : PeerHandleTranscript(t, f)
    \/ PeerGenerateGuidanceStart
    \/ PeerGenerateGuidanceEnds
    \/ \E c \in Contexts : PeerUpdateContext(c)
    \/ \E n \in AudioChunks : PeerSendAudio(n)
    \/ PeerStop

InitPair == Init /\ env = EnvPair /\ rag_engine
SpecPair == InitPair /\ [][NextPair]_vars

\* ------------------------------------------------------------------------
\* The Telnyx stream handlers and their registry
\* ------------------------------------------------------------------------
\* ClientStreamHandler's constants, seconds as milliseconds
CLIENT_GUIDANCE_COOLDOWN_SECONDS == 3000
CLIENT_MIN_WORDS_FOR_GUIDANCE == 8

HOT_TRIGGERS == {
    "can't afford", "too expensive", "not interested", "no money",
    "think about it", "talk to my", "spouse", "wife", "husband",
    "call back", "busy", "not a good time", "don't need",
    "already have", "too much", "let me think", "send information",
    "how much", "what's the cost", "what's the price",
    "i need to", "let me", "give me some time", "not right now",
    "i'm not sure", "that's a lot", "can't do that", "don't have" }

\* the loop of lines 230-234 over the lowered transcript
ClientHotTrigger == [t \in AllTexts |->
                       \E trigger \in HOT_TRIGGERS : Contains(Lower(t), trigger)]

\* len(transcript.split())
ClientWordCount == [t \in AllTexts |-> WordCount(t)]

\* ClientStreamHandler.__init__
NewClientStreamHandler(session_id) ==
    [session_id |-> session_id, is_running |-> FALSE, connection |-> FALSE,
     client_buffer |-> "", last_guidance_time |-> 0,
     generating_guidance |-> FALSE, rag_engine |-> FALSE,
     total_audio_bytes |-> 0, session_start_time |-> 0]

\* AgentStreamHandler.__init__
NewAgentStreamHandler(session_id) ==
    [session_id |-> session_id, is_running |-> FALSE, total_audio_bytes |-> 0]

\* a coroutine of the module on the event loop: whose call it is, the
\* handler it runs on, the await it is suspended at, and its locals
NewTask(kind, session_id, handler, pc) ==
    [kind |-> kind, session_id |-> session_id, handler |-> handler, pc |-> pc,
     text |-> "", is_final |-> FALSE, guidance_text |-> ""]

TasksOfKind(kind) == { k \in DOMAIN tasks : tasks[k].kind = kind }

\* ClientStreamHandler._broadcast: the message handed to the session manager
Broadcast(log, h, type) ==
    Append(log, [handler |-> h, session_id |-> handlers[h].session_id,
                 type |-> type, time |-> now])

\* get_or_create_client_handler up to its first await: a registered handler
\* is returned at once; otherwise one is constructed and its start() runs
\* to the await of get_session
GetOrCreateClientHandler(session_id) ==
    /\ Cardinality(TasksOfKind("get_client")) < env.calls
    /\ IF client_handlers[session_id] = 0
       THEN /\ handlers' = Append(handlers,
                   [NewClientStreamHandler(session_id) EXCEPT
                       !.session_start_time = now])
            /\ tasks' = Append(tasks, NewTask("get_client", session_id,
                                              Len(handlers) + 1, "get_session"))
       ELSE /\ tasks' = Append(tasks, NewTask("get_client", session_id,
                                   client_handlers[session_id], "returned"))
            /\ UNCHANGED handlers
    /\ UNCHANGED << realtime, client_handlers, agents, agent_handlers,
                    broadcasts, deepgram_usage >>

\* start() goes on from an await (lines 75-139): rag says whether
\* get_rag_engine returns, key whether a Deepgram key is configured, ok
\* whether connection.start succeeds. When start() has returned, the caller
\* registers its handler and returns what the registry holds (lines
\* 373-377).
ClientStartResumes(k, rag, key, ok) ==
    LET t == tasks[k]
        h == t.handler
    IN
    /\ t.kind = "get_client"
    /\ CASE t.pc = "get_session" ->
              IF key
              THEN /\ handlers' = [handlers EXCEPT ![h].rag_engine = rag,
                                                   ![h].connection = TRUE]
                   /\ tasks' = [tasks EXCEPT ![k].pc = "connect"]
                   /\ UNCHANGED << broadcasts, client_handlers >>
              ELSE /\ handlers' = [handlers EXCEPT ![h].rag_engine = rag,
                                                   ![h].is_running = TRUE]
                   /\ broadcasts' = Broadcast(broadcasts, h, "ready")
                   /\ tasks' = [tasks EXCEPT ![k].pc = "last_broadcast"]
                   /\ UNCHANGED client_handlers
         [] t.pc = "connect" ->
              /\ handlers' = [handlers EXCEPT ![h].is_running = TRUE]
              /\ broadcasts' = Broadcast(broadcasts, h, "ready")
              /\ tasks' = [tasks EXCEPT
                             ![k].pc = IF ok THEN "ready" ELSE "last_broadcast"]
              /\ UNCHANGED client_handlers
         [] t.pc = "ready" ->
              /\ broadcasts' = Broadcast(broadcasts, h, "speakers_identified")
              /\ tasks' = [tasks EXCEPT ![k].pc = "last_broadcast"]
              /\ UNCHANGED << handlers, client_handlers >>
         [] t.pc = "last_broadcast" ->
              /\ client_handlers' = [client_handlers EXCEPT ![t.session_id] = h]
              /\ tasks' = [tasks EXCEPT ![k].pc = "returned"]
              /\ UNCHANGED << handlers, broadcasts >>
         [] OTHER -> FALSE
    /\ UNCHANGED << realtime, agents, agent_handlers, deepgram_usage >>

\* get_or_create_agent_handler: AgentStreamHandler.start has no await, so
\* the lookup, the construction, the start and the registration are one
\* step of the loop
GetOrCreateAgentHandler(session_id) ==
    /\ Cardinality(TasksOfKind("get_agent")) < env.calls
    /\ IF agent_handlers[session_id] = 0
       THEN /\ agents' = Append(agents,
                   [NewAgentStreamHandler(session_id) EXCEPT
                       !.is_running = TRUE])
            /\ agent_handlers' = [agent_handlers EXCEPT
                                     ![session_id] = Len(agents) + 1]
            /\ tasks' = Append(tasks, NewTask("get_agent", session_id,
                                              Len(agents) + 1, "returned"))
       ELSE /\ tasks' = Append(tasks, NewTask("get_agent", session_id,
                                   agent_handlers[session_id], "returned"))
            /\ UNCHANGED << agents, agent_handlers >>
    /\ UNCHANGED << realtime, handlers, client_handlers, broadcasts,
                    deepgram_usage >>

\* the handlers get_or_create_client_handler has returned to a caller
Returned ==
    { tasks[k].handler : k \in { j \in TasksOfKind("get_client") :
                                   tasks[j].pc = "returned" } }

\* _on_transcript up to its await (lines 173-199): the transcript is
\* broadcast to the frontend
OnTranscript(h, transcript, is_final) ==
    /\ h \in DOMAIN handlers
    /\ handlers[h].connection
    /\ handlers[h].is_running
    /\ Cardinality(TasksOfKind("transcript")) < env.events
    /\ transcript \in env.texts
    /\ tasks' = Append(tasks,
           [NewTask("transcript", handlers[h].session_id, h, "broadcast")
               EXCEPT !.text = transcript, !.is_final = is_final])
    /\ broadcasts' = Broadcast(broadcasts, h, "transcript")
    /\ UNCHANGED << realtime, handlers, client_handlers, agents,
                    agent_handlers, deepgram_usage >>

\* the trigger test were the flag not looked at
check_guidance_trigger_NoFlagTest(me, transcript) ==
    /\ ~(now - me.last_guidance_time < CLIENT_GUIDANCE_COOLDOWN_SECONDS)
    /\ \/ ClientHotTrigger[transcript]
       \/ ClientWordCount[transcript] >= CLIENT_MIN_WORDS_FOR_GUIDANCE

\* _check_guidance_trigger (lines 217-243): whether _generate_guidance is
\* called for the transcript
check_guidance_trigger(me, transcript) ==
    /\ ~me.generating_guidance
    /\ ~(now - me.last_guidance_time < CLIENT_GUIDANCE_COOLDOWN_SECONDS)
    /\ \/ ClientHotTrigger[transcript]
       \/ ClientWordCount[transcript] >= CLIENT_MIN_WORDS_FOR_GUIDANCE

\* _on_transcript after its broadcast (lines 201-212), with
\* _check_guidance_trigger and _generate_guidance up to its first await
\* (lines 245-264): nothing in between gives the loop to another callback
OnTranscriptResumes(k) ==
    LET t == tasks[k]
        h == t.handler
        appended == [handlers[h] EXCEPT
                        !.client_buffer = @ \o " " \o t.text]
    IN
    /\ t.kind = "transcript"
    /\ t.pc = "broadcast"
    /\ IF ~t.is_final
       THEN /\ tasks' = [tasks EXCEPT ![k].pc = "returned"]
            /\ UNCHANGED << handlers, broadcasts >>
       ELSE IF check_guidance_trigger(appended, t.text) /\ appended.rag_engine
       THEN /\ handlers' = [handlers EXCEPT ![h] =
                              [appended EXCEPT !.generating_guidance = TRUE,
                                               !.last_guidance_time = now]]
            /\ broadcasts' = Broadcast(broadcasts, h, "guidance_start")
            /\ tasks' = [tasks EXCEPT ![k].pc = "gen_start"]
       ELSE /\ handlers' = [handlers EXCEPT ![h] = appended]
            /\ tasks' = [tasks EXCEPT ![k].pc = "returned"]
            /\ UNCHANGED broadcasts
    /\ UNCHANGED << realtime, client_handlers, agents, agent_handlers,
                    deepgram_usage >>

\* the awaits of _generate_guidance's try block
GeneratingPcs == {"gen_start", "gen_stream", "gen_chunk", "gen_complete",
                  "gen_add"}

\* the finally of lines 290-291
generation_ends(k) ==
    /\ handlers' = [handlers EXCEPT
                      ![tasks[k].handler].generating_guidance = FALSE]
    /\ tasks' = [tasks EXCEPT ![k].pc = "returned"]

\* a broadcast or add_guidance of _generate_guidance returns (lines
\* 261-286): the stream is awaited next, or the completion recorded, or the
\* coroutine is through
GuidanceResumes(k) ==
    /\ tasks[k].kind = "transcript"
    /\ CASE tasks[k].pc \in {"gen_start", "gen_chunk"} ->
              /\ tasks' = [tasks EXCEPT ![k].pc = "gen_stream"]
              /\ UNCHANGED handlers
         [] tasks[k].pc = "gen_complete" ->
              /\ tasks' = [tasks EXCEPT ![k].pc = "gen_add"]
              /\ UNCHANGED handlers
         [] tasks[k].pc = "gen_add" -> generation_ends(k)
         [] OTHER -> FALSE
    /\ UNCHANGED << realtime, client_handlers, agents, agent_handlers,
                    broadcasts, deepgram_usage >>

\* get_guidance_stream yields a chunk (lines 267-276)
GuidanceStreamYields(k, chunk) ==
    /\ tasks[k].kind = "transcript"
    /\ tasks[k].pc = "gen_stream"
    /\ Len(tasks[k].guidance_text) < env.yields
    /\ chunk \in env.fragments
    /\ tasks' = [tasks EXCEPT ![k].pc = "gen_chunk",
                              ![k].guidance_text = @ \o chunk]
    /\ broadcasts' = Broadcast(broadcasts, tasks[k].handler, "guidance_chunk")
    /\ UNCHANGED << realtime, handlers, client_handlers, agents,
                    agent_handlers, deepgram_usage >>

\* get_guidance_stream is exhausted (lines 278-281)
GuidanceStreamEnds(k) ==
    /\ tasks[k].kind = "transcript"
    /\ tasks[k].pc = "gen_stream"
    /\ tasks' = [tasks EXCEPT ![k].pc = "gen_complete"]
    /\ broadcasts' = Broadcast(broadcasts, tasks[k].handler,
                               "guidance_complete")
    /\ UNCHANGED << realtime, handlers, client_handlers, agents,
                    agent_handlers, deepgram_usage >>

\* an await of the try block raises (lines 288-291)
GuidanceRaises(k) ==
    /\ tasks[k].kind = "transcript"
    /\ tasks[k].pc \in GeneratingPcs
    /\ generation_ends(k)
    /\ UNCHANGED << realtime, client_handlers, agents, agent_handlers,
                    broadcasts, deepgram_usage >>

\* handle_telnyx_message with a media event (lines 151-164)
HandleMedia(h, payload) ==
    /\ h \in Returned
    /\ payload \in Payloads \ {"absent", ""}
    /\ handlers[h].total_audio_bytes + b64decoded_len(payload) <= MaxAudioBytes
    /\ handlers' = [handlers EXCEPT
                      ![h].total_audio_bytes = @ + b64decoded_len(payload)]
    /\ UNCHANGED << realtime, client_handlers, agents, agent_handlers, tasks,
                    broadcasts, deepgram_usage >>

\* ClientStreamHandler.stop up to its first await (lines 304-326), called
\* by the coroutine that becomes task
client_stop(h, task) ==
    /\ handlers' = [handlers EXCEPT ![h].is_running = FALSE]
    /\ deepgram_usage' =
           IF handlers[h].total_audio_bytes > 0
              /\ handlers[h].session_start_time # 0
           THEN Append(deepgram_usage, h)
           ELSE deepgram_usage
    /\ IF handlers[h].connection
       THEN /\ tasks' = Append(tasks, [task EXCEPT !.pc = "finish"])
            /\ UNCHANGED broadcasts
       ELSE /\ tasks' = Append(tasks, [task EXCEPT !.pc = "stream_ended"])
            /\ broadcasts' = Broadcast(broadcasts, h, "stream_ended")

\* handle_telnyx_message with the stop event (lines 166-168); Telnyx ends a
\* stream once
HandleStop(h) ==
    /\ h \in Returned
    /\ \A k \in TasksOfKind("stop") : tasks[k].handler # h
    /\ client_stop(h, NewTask("stop", handlers[h].session_id, h, "called"))
    /\ UNCHANGED << realtime, client_handlers, agents, agent_handlers >>

\* remove_handler (lines 391-398): the client's handler is taken out of
\* the registry and stopped
RemoveHandler(session_id) ==
    /\ client_handlers[session_id] # 0
    /\ client_handlers' = [client_handlers EXCEPT ![session_id] = 0]
    /\ client_stop(client_handlers[session_id],
                   NewTask("remove", session_id, client_handlers[session_id],
                           "called"))
    /\ UNCHANGED << realtime, agents, agent_handlers >>

\* stop() goes on from an await: after connection.finish the end of the
\* stream is broadcast; after the broadcast stop() returns, and
\* remove_handler takes out and stops the agent's handler
StopResumes(k) ==
    LET t == tasks[k]
        a == agent_handlers[t.session_id]
    IN
    /\ t.kind \in {"stop", "remove"}
    /\ CASE t.pc = "finish" ->
              /\ tasks' = [tasks EXCEPT ![k].pc = "stream_ended"]
              /\ broadcasts' = Broadcast(broadcasts, t.handler, "stream_ended")
              /\ UNCHANGED << agents, agent_handlers >>
         [] t.pc = "stream_ended" ->
              /\ tasks' = [tasks EXCEPT ![k].pc = "returned"]
              /\ IF t.kind = "remove" /\ a # 0
                 THEN /\ agent_handlers' =
                             [agent_handlers EXCEPT ![t.session_id] = 0]
                      /\ agents' = [agents EXCEPT ![a].is_running = FALSE]
                 ELSE UNCHANGED << agents, agent_handlers >>
              /\ UNCHANGED broadcasts
         [] OTHER -> FALSE
    /\ UNCHANGED << realtime, handlers, client_handlers, deepgram_usage >>

\* callers of the registry for two sessions
NextRegistry ==
    \/ \E id \in SessionIds : GetOrCreateClientHandler(id)
    \/ \E k \in DOMAIN tasks, rag, key, ok \in BOOLEAN :
          ClientStartResumes(k, rag, key, ok)
    \/ \E id \in SessionIds : GetOrCreateAgentHandler(id)

InitRegistry == Init /\ env = EnvRegistry /\ rag_engine
SpecRegistry == InitRegistry /\ [][NextRegistry]_vars

\* one handler whose start found the backend and the provider, its
\* connection's callbacks and the clock
NextGate ==
    \/ GetOrCreateClientHandler("s1")
    \/ \E k \in DOMAIN tasks : ClientStartResumes(k, TRUE, TRUE, TRUE)
    \/ \E h \in DOMAIN handlers, t \in AllTexts, f \in BOOLEAN :
          OnTranscript(h, t, f)
    \/ \E k \in DOMAIN tasks : OnTranscriptResumes(k)
    \/ \E k \in DOMAIN tasks : GuidanceResumes(k)
    \/ \E k \in DOMAIN tasks, c \in AllFragments : GuidanceStreamYields(k, c)
    \/ \E k \in DOMAIN tasks : GuidanceStreamEnds(k)
    \/ \E k \in DOMAIN tasks : GuidanceRaises(k)
    \/ \E d \in AllSteps : Tick(d)

InitGate == Init /\ env = EnvGate /\ rag_engine
SpecGate == InitGate /\ [][NextGate]_vars

\* one session's streams from their start to the end of the call
NextTeardown ==
    \/ GetOrCreateClientHandler("s1")
    \/ \E k \in DOMAIN tasks, rag, key, ok \in BOOLEAN :
          ClientStartResumes(k, rag, key, ok)
    \/ GetOrCreateAgentHandler("s1")
    \/ \E h \in DOMAIN handlers, p \in Payloads : HandleMedia(h, p)
    \/ \E h \in DOMAIN handlers : HandleStop(h)
    \/ RemoveHandler("s1")
    \/ \E k \in DOMAIN tasks : StopResumes(k)

InitTeardown == Init /\ env = EnvTeardown /\ rag_engine
SpecTeardown == InitTeardown /\ [][NextTeardown]_vars

\* The loop runs every callback that is ready and the clock advances; the
\* backend owes nothing: its iterator may block for ever.
LoopStep ==
    \/ SendTranscript
    \/ \E p \in BOOLEAN, s \in BOOLEAN : GenerateGuidanceStart(p, s)
    \/ ClassifierRaises
    \/ \E i \in DOMAIN gens, s \in BOOLEAN : Resume(i, s)
    \/ \E i \in DOMAIN gens : GenerateGuidanceFinish(i)
    \/ \E i \in DOMAIN gens : GenerateGuidanceTimeout(i)

\* the same scheduling for the interim transcript and its final
SpecRaceFair ==
    /\ InitRace
    /\ [][Next]_vars
    /\ WF_vars(LoopStep)
    /\ WF_vars(AppendFinal)
    /\ WF_vars(\E d \in AllSteps : Tick(d))

SpecStall ==
    /\ InitStream
    /\ [][Next]_vars
    /\ WF_vars(LoopStep)
    /\ WF_vars(AppendFinal)
    /\ WF_vars(\E d \in AllSteps : Tick(d))

\* ------------------------------------------------------------------------
\* What the session is seen to do
\* ------------------------------------------------------------------------
\* _generate_guidance coroutines handed to the loop so far
GenerateQueued ==
    Cardinality({ k \in DOMAIN loopQueue : loopQueue[k] = GenerateCoro })

Dispatched == Len(invoked) + GenerateQueued

\* the step hands one _generate_guidance to the loop and stamps the time
Dispatches ==
    /\ loopQueue' = schedule_async(schedule_async(loopQueue, TranscriptCoro),
                                   GenerateCoro)
    /\ last_guidance_time' = now

EventsOfType(type) == { k \in DOMAIN sent : sent[k].type = type }

NumStarts == Cardinality(EventsOfType("guidance_start"))

\* ------------------------------------------------------------------------
\* C1 - single flight
\* ------------------------------------------------------------------------
\* C1: at most one generation body is executing at any time, and while one
\* is the flag is set: a _generate_guidance that starts while the flag is
\* set returns at its guards.
C1_SingleFlight ==
    /\ Len(gens) <= 1
    /\ gens # << >> => generating_guidance

\* a second _generate_guidance started while the first one's body was in
\* flight, and returned at the guard
C1_SecondInvocationSkipped ==
    /\ Len(gens) = 1
    /\ Len(invoked) = 2
    /\ invoked[1] = "started"
    /\ invoked[2] = "already_generating"

\* ------------------------------------------------------------------------
\* C2 - the flag is always reset
\* ------------------------------------------------------------------------
\* C2: a flag still set when the 8 s timeout of its generation is due is
\* eventually reset, also when the backend stalls.
C2_FlagResetOnceTimeoutDue ==
    (generating_guidance /\ \E i \in DOMAIN gens : now >= gens[i].deadline)
        ~> ~generating_guidance

\* ------------------------------------------------------------------------
\* C3 - one dispatch per hot cooldown window
\* ------------------------------------------------------------------------
\* C3: of the hot-keyword events of a session the first one dispatches a
\* generation, and no event dispatches one less than
\* HOT_TRIGGER_COOLDOWN_SECONDS after a dispatch: N events inside the
\* window of the first invoke exactly one generation.
C3_OneDispatchPerWindow ==
    /\ [](delivered >= 1 => Dispatched >= 1)
    /\ [](now - StartTime < HOT_TRIGGER_COOLDOWN_SECONDS => Dispatched <= 1)
    /\ [][Dispatched' > Dispatched =>
            now - last_guidance_time >= HOT_TRIGGER_COOLDOWN_SECONDS]_vars

\* three hot-keyword events have arrived inside the window of the first
\* and one generation was invoked
C3_ThreeEventsOneDispatch ==
    /\ delivered = 3
    /\ provider.pc = "idle"
    /\ now - last_guidance_time < HOT_TRIGGER_COOLDOWN_SECONDS
    /\ now - StartTime < HOT_TRIGGER_COOLDOWN_SECONDS
    /\ Dispatched = 1

\* ------------------------------------------------------------------------
\* C4 - an interim transcript and its final
\* ------------------------------------------------------------------------
\* the interim transcript fired and the final one was checked within the
\* window, the session's first two events
PairDelivered ==
    /\ delivered = 2
    /\ last_trigger_text = TextWifeInterim
    /\ provider = [pc |-> "append", text |-> TextWifeFinal]
    /\ now - last_guidance_time <= 300

\* C4: for hot-keyword events that arrive within 300 ms of each other one
\* generation is dispatched and at most one guidance_start is produced,
\* exactly one once the backend has yielded text.
C4_AtMostOneStart ==
    now - StartTime <= 300 =>
        /\ NumStarts <= 1
        /\ delivered >= 1 => Dispatched = 1
        /\ \A i \in DOMAIN gens : gens[i].full_text # "" => NumStarts = 1
        /\ EventsOfType("guidance_complete") # {} => NumStarts = 1

\* the pair was delivered and its one guidance_start produced
C4_PairOneStart ==
    /\ PairDelivered
    /\ NumStarts = 1

\* C4 as stated: once the pair is delivered and no generation is queued or
\* running, exactly one guidance_start was produced.
C4_ExactlyOneStart ==
    (PairDelivered /\ GenerateQueued = 0 /\ gens = << >>) => NumStarts = 1

\* ------------------------------------------------------------------------
\* C5 - the hot cooldown's boundary
\* ------------------------------------------------------------------------
\* the trigger check left the trigger state as it was and dispatched nothing
Suppressed ==
    /\ loopQueue' = schedule_async(loopQueue, TranscriptCoro)
    /\ UNCHANGED << last_guidance_time, last_trigger_text, transcript_buffer >>

\* the hot trigger fired for transcript t
HotFires(t) ==
    /\ Dispatches
    /\ last_trigger_text' = t
    /\ transcript_buffer' = t

DuplicateRule(a, b) ==
    LET x == Strip(Lower(a))
        y == Strip(Lower(b))
        common == Cardinality(WordSet(x) \cap WordSet(y))
        larger == Max(Cardinality(WordSet(x)), Cardinality(WordSet(y)))
    IN  \/ Prefix(y, 30) = SubSeq(x, 1, Min(Len(x), Len(Prefix(y, 30))))
        \/ Prefix(x, 30) = SubSeq(y, 1, Min(Len(y), Len(Prefix(x, 30))))
        \/ (larger > 0 /\ 10 * common > 7 * larger)

DuplicateByRule == [a \in Candidates, b \in Candidates |-> DuplicateRule(a, b)]

C7_DedupWindowExpiry ==
    [][delivered' # delivered =>
       \A t \in AllTexts, f \in BOOLEAN :
          ( /\ t \in env.texts /\ HotTrigger[t] /\ HandleTranscript(t, f)
            /\ now - last_guidance_time > DEDUP_WINDOW )
             => /\ TriggerDecision(t, f) # "duplicate"
                /\ is_semantic_duplicate(t) = [result |-> FALSE, last_trigger_text |-> ""]
                /\ IF generating_guidance THEN Suppressed ELSE HotFires(t)]_vars

\* the same objection was repeated 8 s after it fired, and fired again
C7_RepeatedObjectionFired ==
    /\ delivered = 2
    /\ Dispatched = 2
    /\ Len(invoked) = 1
    /\ now = StartTime + GUIDANCE_TIMEOUT_SECONDS
    /\ last_guidance_time = now
    /\ last_trigger_text = TextExpensive
    /\ gens = << >>
    /\ EventsOfType("guidance_start") # {}

\* C7 as stated: evaluated more than 3 s after last_guidance_time, the
\* trigger fires.
C7_AlwaysFiresAfterWindow ==
    [][delivered' # delivered =>
       \A t \in AllTexts, f \in BOOLEAN :
          ( /\ t \in env.texts /\ HotTrigger[t] /\ HandleTranscript(t, f)
            /\ now - last_guidance_time > DEDUP_WINDOW )
             => HotFires(t)]_vars

\* ------------------------------------------------------------------------
\* C8 - the word threshold
\* ------------------------------------------------------------------------
\* a final transcript without hot keyword is checked with the standard
\* cooldown elapsed and no generation in flight
StandardCheck(t) ==
    /\ t \in env.texts
    /\ ~HotTrigger[t]
    /\ HandleTranscript(t, TRUE)
    /\ ~generating_guidance
    /\ now - last_guidance_time >= GUIDANCE_COOLDOWN_SECONDS

\* the buffer once _handle_transcript has appended t to it
BufferWith(t) == transcript_buffer \o " " \o t

\* C8: on such an event a generation is dispatched exactly when the buffer
\* before the event's own text is appended holds more than
\* MIN_WORDS_FOR_GUIDANCE words: the event that brings the buffer to 12
\* words dispatches nothing, the one that brings it to 13 dispatches
\* nothing either, and the final event after that one dispatches.
C8_ThresholdOnBufferBeforeEvent ==
    [][delivered' # delivered =>
       \A t \in AllTexts :
          StandardCheck(t) =>
             /\ Dispatches <=> WordCount(transcript_buffer) > MIN_WORDS_FOR_GUIDANCE
             /\ ~Dispatches => Suppressed
             /\ ( /\ WordCount(BufferWith(t)) \in
                       {MIN_WORDS_FOR_GUIDANCE, MIN_WORDS_FOR_GUIDANCE + 1}
                  /\ WordCount(t) > 0 )
                  => Suppressed]_vars

\* the buffer held 13 words, the next final event was checked and a
\* generation was dispatched on it, the session's first
C8_DispatchedOnNextEvent ==
    /\ delivered = 3
    /\ provider = [pc |-> "append", text |-> TextFiller1]
    /\ WordCount(transcript_buffer) = MIN_WORDS_FOR_GUIDANCE + 1
    /\ last_guidance_time = now
    /\ Dispatched = 1

\* C8 as stated: the event that brings the buffer to 13 words dispatches a
\* generation.
C8_DispatchedOnSameEvent ==
    [][delivered' # delivered =>
       \A t \in AllTexts :
          ( /\ StandardCheck(t)
            /\ WordCount(BufferWith(t)) = MIN_WORDS_FOR_GUIDANCE + 1 )
             => Dispatches]_vars

\* ------------------------------------------------------------------------
\* C9 - rebatching the stream
\* ------------------------------------------------------------------------
RECURSIVE ChunksOf(_, _)
\* the text of generation id streamed in the first n events
ChunksOf(id, n) ==
    IF n = 0 THEN ""
    ELSE IF sent[n].gen = id /\ sent[n].type \in {"guidance_start", "guidance_chunk"}
         THEN ChunksOf(id, n - 1) \o sent[n].chunk
         ELSE ChunksOf(id, n - 1)

\* the step emits a guidance_chunk from inside the stream loop
EmitsChunkInLoop(i) ==
    /\ gens[i].pc = "iter"
    /\ i \in DOMAIN gens'
    /\ gens'[i].pc \in {"iter", "await_chunk"}
    /\ Len(sent') = Len(sent) + 1
    /\ sent'[Len(sent')].type = "guidance_chunk"

\* C9: the first non-empty fragment is emitted at once as guidance_start;
\* every guidance_chunk emitted inside the stream loop comes no sooner than
\* BATCH_INTERVAL after the emission before it; and when the stream ends
\* what is still buffered is flushed, at once, so that the chunks add up to
\* the full text.
C9_Rebatch ==
    /\ [](\A i \in DOMAIN gens :
            gens[i].full_text # "" =>
               \E k \in DOMAIN sent :
                  /\ sent[k].type = "guidance_start"
                  /\ sent[k].gen = gens[i].id
                  /\ sent[k].chunk = Prefix(gens[i].full_text, 1)
                  /\ sent[k].full_text = sent[k].chunk)
    /\ [](\A k \in DOMAIN sent :
            sent[k].type = "guidance_complete" =>
               ChunksOf(sent[k].gen, k) = sent[k].full_text)
    /\ [][\A i \in DOMAIN gens :
            EmitsChunkInLoop(i) =>
               /\ sent # << >>
               /\ sent[Len(sent)].type \in {"guidance_start", "guidance_chunk"}
               /\ sent'[Len(sent')].elapsed - sent[Len(sent)].elapsed
                    >= BATCH_INTERVAL]_vars

\* a guidance_start, and a guidance_chunk emitted from the loop 80 ms later
C9_ChunkAfterInterval ==
    /\ gens # << >>
    /\ gens[1].pc \in {"iter", "await_chunk"}
    /\ Len(sent) >= 2
    /\ sent[Len(sent)].type = "guidance_chunk"
    /\ sent[Len(sent) - 1].type = "guidance_start"
    /\ sent[Len(sent)].elapsed - sent[Len(sent) - 1].elapsed = BATCH_INTERVAL

\* C9 as stated: every guidance_chunk comes no sooner than BATCH_INTERVAL
\* after the emission before it.
C9_EveryChunkAfterInterval ==
    \A k \in DOMAIN sent :
       (k > 1 /\ sent[k].type = "guidance_chunk" /\ sent[k - 1].gen = sent[k].gen)
          => sent[k].elapsed - sent[k - 1].elapsed >= BATCH_INTERVAL

\* ------------------------------------------------------------------------
\* C10 - the outcome of a timeout
\* ------------------------------------------------------------------------
\* C10: no guidance_complete is emitted for a generation whose body has
\* been running for more than GUIDANCE_TIMEOUT_SECONDS.
C10_NoCompleteAfterTimeout ==
    \A k \in DOMAIN sent :
       sent[k].type = "guidance_complete" =>
          sent[k].elapsed <= GUIDANCE_TIMEOUT_SECONDS

\* ------------------------------------------------------------------------
\* C11 - a generation that fails
\* ------------------------------------------------------------------------
\* C11: when the backend or the price-objection classifier raises, the step
\* emits no event and schedules none, the body returns to _generate_guidance
\* (nothing propagates), the end of the cycle clears the flag and the
\* buffer, and afterwards a hot-keyword transcript that is past the cooldown
\* and no duplicate fires as in a fresh session.
C11_FailureOutcome ==
    /\ [][failures' # failures =>
            /\ sent' = sent
            /\ errors_notified' = errors_notified
            /\ \/ loopQueue' = loopQueue
               \/ loopQueue # << >> /\ loopQueue' = Tail(loopQueue)
            /\ \E i \in DOMAIN gens' : gens'[i].pc = "returned"]_vars
    /\ [][Len(gens') < Len(gens) =>
            ~generating_guidance' /\ transcript_buffer' = ""]_vars
    /\ [](gens = << >> => ~generating_guidance)
    /\ [][(failures > 0 /\ delivered' # delivered) =>
           \A t \in AllTexts, f \in BOOLEAN :
              ( /\ t \in env.texts /\ HotTrigger[t] /\ HandleTranscript(t, f)
                /\ gens = << >>
                /\ now - last_guidance_time >= HOT_TRIGGER_COOLDOWN_SECONDS
                /\ ~is_semantic_duplicate(t).result )
              => HotFires(t)]_vars

\* the first generation failed, the second was dispatched by a later
\* transcript and is reading the backend's stream
C11_FiredAfterFailure ==
    /\ failures = 1
    /\ Len(gens) = 1
    /\ gens[1].id = 2
    /\ gens[1].pc = "iter"
    /\ ~\E k \in DOMAIN sent : sent[k].type = "guidance_complete"

\* ------------------------------------------------------------------------
\* C12 - teardown
\* ------------------------------------------------------------------------
\* C12: whatever the order of stop() and the provider's close notification,
\* the session's usage is passed to log_deepgram_usage at most once.
C12_UsageLoggedOnce == Len(usage_log) <= 1

\* ------------------------------------------------------------------------
\* C13 - the down-close level
\* ------------------------------------------------------------------------
\* C13: the down-close level never exceeds the cap and never decreases; a
\* call of apply_down_close below the cap raises it by one and returns
\* true, a call at the cap leaves it and returns false, and a call with no
\* state machine returns false.
C13_DownCloseCapped ==
    /\ [](state_machine.down_close_level <= MaxDownCloseLevel)
    /\ [][state_machine'.down_close_level >= state_machine.down_close_level]_vars
    /\ [][ApplyDownClose =>
            IF state_machine = NoStateMachine
            THEN client'.result = "False" /\ state_machine' = state_machine
            ELSE IF state_machine.down_close_level < MaxDownCloseLevel
            THEN /\ client'.result = "True"
                 /\ state_machine' =
                      [state_machine EXCEPT !.down_close_level =
                                               state_machine.down_close_level + 1]
            ELSE client'.result = "False" /\ state_machine' = state_machine]_vars

\* the level is at the cap and the call made there returned false
C13_RefusedAtCap ==
    /\ state_machine.down_close_level = MaxDownCloseLevel
    /\ client.result = "False"

\* ------------------------------------------------------------------------
\* C19 - the state machine is made once
\* ------------------------------------------------------------------------
\* C19: there is no state machine until a context update carries a
\* non-empty call type; that update constructs the session's only one, and
\* every later update leaves it as it is.
C19_LazyStateMachine ==
    /\ [](client.created <= 1)
    /\ [](state_machine = NoStateMachine <=> client.created = 0)
    /\ [][\A c \in Contexts : UpdateContext(c) =>
            IF state_machine # NoStateMachine
            THEN state_machine' = state_machine
            ELSE IF c.call_type \in {"absent", ""}
            THEN state_machine' = NoStateMachine
            ELSE /\ state_machine'.id = 1
                 /\ state_machine'.down_close_level = 0]_vars
    /\ [][(state_machine = NoStateMachine /\ state_machine' # NoStateMachine) =>
            \E c \in Contexts :
               c.call_type \notin {"absent", ""} /\ UpdateContext(c)]_vars

\* the machine made for a presentation was taken a level down, and a later
\* update with the call type "phone" left it in place
C19_LaterUpdateKeepsMachine ==
    /\ state_machine = [NewStateMachine(1, FALSE) EXCEPT !.down_close_level = 1]
    /\ client.call_type = "phone"

\* ------------------------------------------------------------------------
\* C14 - what is handed to the loop is started, in order
\* ------------------------------------------------------------------------
\* coroutines the loop has started so far
Started == notified + errors_notified + Len(invoked)

\* C14: every coroutine handed to the loop is eventually started: the n-th
\* one handed over is started once n are.
C14_EventuallyStarted ==
    \A n \in 1..(2 * MaxEvents) :
        (Started + Len(loopQueue) >= n) ~> (Started >= n)

\* ------------------------------------------------------------------------
\* C15 - the loop does not run
\* ------------------------------------------------------------------------
\* C15: while the loop does not run nothing joins its queue, whatever the
\* provider's thread hands over, and nothing that was handed over is
\* started or emits an event, then or later: the loop does not run again.
C15_NoOpWithoutLoop ==
    [][~loop_running =>
         /\ loopQueue' = loopQueue
         /\ notified' = notified
         /\ errors_notified' = errors_notified
         /\ invoked' = invoked
         /\ gens' = gens
         /\ sent' = sent
         /\ ~loop_running']_vars

\* an objection was evaluated and fired after the loop had stopped: its
\* notification and its generation were dropped
C15_DroppedWithoutLoop ==
    /\ ~loop_running
    /\ last_trigger_text = TextWifeInterim
    /\ loopQueue = << >>
    /\ notified = 0
    /\ invoked = << >>

\* ------------------------------------------------------------------------
\* C16 - who touches the session's state
\* ------------------------------------------------------------------------
\* C16: while a generation runs, no step of the provider's thread changes
\* transcript_buffer, last_guidance_time or last_trigger_text.
C16_ProviderLeavesState ==
    [][(gens # << >> /\ provider' # provider) =>
         UNCHANGED << transcript_buffer, last_guidance_time,
                      last_trigger_text >>]_vars

\* ------------------------------------------------------------------------
\* C17 - dropped, never queued
\* ------------------------------------------------------------------------
\* C17: a transcript evaluated while the flag is set hands no generation
\* to the loop and leaves last_guidance_time and last_trigger_text as they
\* are; a generation is handed over only by the evaluation of a transcript
\* while the flag is clear, one at a time: the end of a generation hands
\* over none.
C17_DroppedNeverQueued ==
    /\ [][(generating_guidance /\ delivered' # delivered) =>
            /\ loopQueue' = schedule_async(loopQueue, TranscriptCoro)
            /\ UNCHANGED << last_guidance_time, last_trigger_text >>]_vars
    /\ [][Dispatched' # Dispatched =>
            /\ ~generating_guidance
            /\ delivered' = delivered + 1
            /\ Dispatched' = Dispatched + 1]_vars

\* a second objection, no duplicate and past the cooldown, was evaluated
\* while the first one's generation ran: nothing was dispatched for it
C17_ObjectionDropped ==
    /\ provider = [pc |-> "append", text |-> TextAfford]
    /\ delivered = 2
    /\ last_trigger_text = TextWifeInterim
    /\ now - last_guidance_time >= HOT_TRIGGER_COOLDOWN_SECONDS
    /\ generating_guidance
    /\ Dispatched = 1

\* ------------------------------------------------------------------------
\* C18 - transcripts are forwarded
\* ------------------------------------------------------------------------
\* on_transcript coroutines of a kind waiting in the loop's queue
QueuedOfKind(kind) ==
    Cardinality({ k \in DOMAIN loopQueue : loopQueue[k].kind = kind })

\* C18: while the loop runs, a transcript with text hands exactly one
\* notification to the loop, behind everything handed over before and
\* whatever the flag and the cooldown; the loop starts only the head of its
\* queue, one notification at a time; while the loop does not run nothing
\* is handed over; an event without text changes nothing.
C18_TranscriptForwarded ==
    /\ [][delivered' # delivered =>
           \A t \in AllTexts, f \in BOOLEAN :
              (t \in env.texts /\ HandleTranscript(t, f)) =>
                 IF loop_running
                 THEN /\ QueuedOfKind("transcript")' = QueuedOfKind("transcript") + 1
                      /\ SubSeq(loopQueue', 1, Len(loopQueue) + 1) =
                           Append(loopQueue, TranscriptCoro)
                 ELSE loopQueue' = loopQueue]_vars
    /\ [][notified' # notified =>
            /\ notified' = notified + 1
            /\ loopQueue # << >>
            /\ Head(loopQueue) = TranscriptCoro
            /\ loopQueue' = Tail(loopQueue)]_vars
    /\ [][HandleEmptyTranscript =>
            UNCHANGED << loopQueue, notified, transcript_buffer,
                         last_guidance_time, last_trigger_text,
                         generating_guidance, gens, invoked, sent,
                         lifecycle >>]_vars
    /\ [](notified + QueuedOfKind("transcript") <= delivered)

\* both transcripts reached the client while a generation was running
C18_BothNotified ==
    /\ notified = 2
    /\ generating_guidance
    /\ last_trigger_text = TextWifeInterim

\* C18 as stated: every transcript with text hands one notification to the
\* loop.
C18_AlwaysForwarded ==
    [][delivered' # delivered =>
         \A t \in AllTexts, f \in BOOLEAN :
            (t \in env.texts /\ HandleTranscript(t, f)) =>
               QueuedOfKind("transcript")' = QueuedOfKind("transcript") + 1]_vars

\* ------------------------------------------------------------------------
\* C20 - an error of the provider
\* ------------------------------------------------------------------------
\* C20: an error callback marks the session non-running, starts no
\* teardown and logs no usage, and hands one error event to the loop while
\* the loop runs (none otherwise); the loop delivers the events one by
\* one; once the session is non-running it stays so and send_audio hands
\* nothing to the provider.
C20_ProviderError ==
    /\ [][HandleError =>
            /\ ~is_running'
            /\ UNCHANGED << usage_log, connection, total_audio_bytes >>
            /\ client'.stopping = client.stopping
            /\ loopQueue' = IF loop_running THEN Append(loopQueue, ErrorCoro)
                            ELSE loopQueue]_vars
    /\ [][errors_notified' # errors_notified =>
            /\ errors_notified' = errors_notified + 1
            /\ QueuedOfKind("error")' = QueuedOfKind("error") - 1]_vars
    /\ [][~is_running =>
            /\ ~is_running'
            /\ client'.forwarded = client.forwarded
            /\ total_audio_bytes' = total_audio_bytes]_vars

\* the error reached the client, and the send_audio called afterwards
\* handed nothing to the provider
C20_AudioDroppedAfterError ==
    /\ errors_notified = 1
    /\ QueuedOfKind("error") = 0
    /\ ~is_running
    /\ client.calls = 2
    /\ client.forwarded = 0
    /\ client.stopping = 0
    /\ connection
    /\ ~client.closed

\* C20 as stated: every error callback hands one error event to the loop.
C20_OneErrorEventEach ==
    [][HandleError => loopQueue' = Append(loopQueue, ErrorCoro)]_vars

\* ------------------------------------------------------------------------
\* C21: an audio send to the provider that times out or fails marks the
\* session non-running and returns without raising and without an event;
\* the session never runs again, and every later send_audio call hands no
\* chunk to the provider and leaves the accumulated byte count as it is.
C21_SendTimeout ==
    /\ [][SendAudioReturns(FALSE) =>
            /\ ~is_running'
            /\ ~client'.sending
            /\ UNCHANGED << total_audio_bytes, loopQueue, errors_notified,
                            usage_log, connection, failures >>]_vars
    /\ [][~is_running => ~is_running']_vars
    /\ [][\A n \in AudioChunks :
            (SendAudio(n) /\ ~is_running) =>
                /\ client'.forwarded = client.forwarded
                /\ ~client'.sending
                /\ total_audio_bytes' = total_audio_bytes]_vars

\* one second of audio was sent and the send failed; the next call of
\* send_audio, made with no stop, no close and no provider error in
\* between, forwarded nothing and counted nothing
C21_LaterSendDropped ==
    /\ ~is_running
    /\ connection
    /\ loop_running
    /\ client.calls = 2
    /\ client.forwarded = 1
    /\ ~client.sending
    /\ client.stopping = 0
    /\ ~client.closed
    /\ errors_notified = 0
    /\ QueuedOfKind("error") = 0
    /\ total_audio_bytes = SAMPLE_RATE * BYTES_PER_SAMPLE * CHANNELS

\* ------------------------------------------------------------------------
\* the bytes that the payloads decode to
DecodedLength ==
    [p \in Payloads |-> CASE p = "QQ==" -> 1
                          [] p = "QUI=" -> 2
                          [] p = "QUJD" -> 3
                          [] OTHER -> 0]

\* C22: whatever the agent's handler is handed, the session's transcripts,
\* triggers and guidance are left alone; each call is one entry of the
\* handler's history, the byte count grows by the decoded length of a media
\* message's payload and by nothing otherwise, and is_running is true after
\* start(), false after a stop and otherwise as it was.
C22_RecordingOnly ==
    [][agent' # agent =>
        /\ UNCHANGED << session, peer >>
        /\ Len(agent'.handled) = Len(agent.handled) + 1
        /\ LET last == agent'.handled[Len(agent'.handled)] IN
           /\ agent'.total_audio_bytes =
                 agent.total_audio_bytes +
                 (IF last.event = "media" THEN DecodedLength[last.payload]
                  ELSE 0)
           /\ agent'.is_running =
                 (CASE last.event = "start()" -> TRUE
                    [] last.event \in {"stop", "stop()"} -> FALSE
                    [] OTHER -> agent.is_running)]_vars

\* the handler was started, counted two media messages of three and of two
\* bytes and was stopped by the stream's stop message
C22_CountedAndStopped ==
    /\ ~agent.is_running
    /\ agent.total_audio_bytes = 5
    /\ Len(agent.handled) = 4
    /\ agent.handled[2] = [event |-> "media", payload |-> "QUJD"]
    /\ agent.handled[3] = [event |-> "media", payload |-> "QUI="]
    /\ agent.handled[4].event = "stop"

\* ------------------------------------------------------------------------
\* C23: every invocation of _generate_guidance takes one dispatch off the
\* loop's queue, every dispatch is put there by the trigger check of one
\* transcript event that qualifies, and the end of a generation, by
\* timeout, failure, empty output or completion, dispatches nothing and
\* starts nothing.
C23_NoRetry ==
    /\ [][invoked' # invoked =>
            /\ loopQueue # << >>
            /\ Head(loopQueue) = GenerateCoro
            /\ loopQueue' = Tail(loopQueue)
            /\ Len(invoked') = Len(invoked) + 1
            /\ delivered' = delivered]_vars
    /\ [][GenerateQueued' > GenerateQueued =>
            /\ GenerateQueued' = GenerateQueued + 1
            /\ delivered' = delivered + 1
            /\ \E t \in env.texts, f \in BOOLEAN :
                  /\ HandleTranscript(t, f)
                  /\ TriggerDecision(t, f) \in {"hot_fire", "std_fire"}]_vars
    /\ [][Len(gens') < Len(gens) => UNCHANGED << loopQueue, invoked >>]_vars

\* two generations ran one after the other, each dispatched by an event of
\* its own; the third event dispatched nothing
C23_OneGenerationPerEvent ==
    /\ invoked = << "started", "started" >>
    /\ Dispatched = 2
    /\ delivered = 3
    /\ last_guidance_time = now
    /\ gens # << >>

\* C23 as stated: after a generation ends none starts until a new
\* qualifying event arrives, so none waits in the loop's queue when a
\* generation ends.
C23_NoneWaitingAtEnd ==
    [][Len(gens') < Len(gens) => GenerateQueued = 0]_vars

\* ------------------------------------------------------------------------
\* C24: stop() called while a generation is in flight clears is_running
\* and accounts the usage, and leaves the generation, its flag, its events
\* and the loop's queue as they are, when it is called and when it returns;
\* the flag is cleared only by the generation's own end, its body having
\* returned or its timeout being due.
C24_StopLeavesGeneration ==
    /\ [][(Stop /\ generating_guidance) =>
            /\ ~is_running'
            /\ usage_log' = log_session_usage
            /\ UNCHANGED << gens, generating_guidance, sent, loopQueue,
                            invoked, transcript_buffer >>]_vars
    /\ [][StopReturns =>
            UNCHANGED << gens, generating_guidance, sent, loopQueue,
                         invoked, transcript_buffer >>]_vars
    /\ [][(generating_guidance /\ ~generating_guidance') =>
            \E i \in DOMAIN gens :
                /\ gens' = RemoveAt(gens, i)
                /\ gens[i].pc = "returned" \/ now >= gens[i].deadline]_vars

\* stop() was called with the session's one generation in flight, logged
\* the second of audio and returned; the generation is still in flight
C24_GenerationOutlivesStop ==
    /\ client.busy
    /\ ~connection
    /\ ~is_running
    /\ usage_log # << >>
    /\ invoked = << "started" >>
    /\ generating_guidance
    /\ gens # << >>

\* ------------------------------------------------------------------------
\* this session's trigger state, buffer, flag, byte count and state machine
OwnState ==
    << last_guidance_time, last_trigger_text, transcript_buffer,
       generating_guidance, total_audio_bytes, state_machine >>

\* C25: a step that changes this session's trigger state, buffer, flag,
\* byte count or state machine leaves the other session as it is, and a
\* step of the other session leaves all of this session as it is; a hot
\* keyword delivered to the other session while its own flag is clear, its
\* own cooldown over and no trigger text of its own remembered is
\* dispatched, whether or not this session is generating.
C25_SessionsIsolated ==
    /\ [][OwnState' # OwnState => peer' = peer]_vars
    /\ [][peer' # peer => UNCHANGED session]_vars
    /\ [][\A t \in env.texts, f \in BOOLEAN :
            ( /\ PeerHandleTranscript(t, f)
              /\ HotTrigger[t]
              /\ ~peer.generating_guidance
              /\ now - peer.last_guidance_time >= HOT_TRIGGER_COOLDOWN_SECONDS
              /\ peer.last_trigger_text = ""
              /\ loop_running ) =>
                /\ peer'.queued = peer.queued + 1
                /\ peer'.last_guidance_time = now
                /\ peer'.last_trigger_text = t]_vars

\* this session's generation started at the start of the run and is still
\* in flight one timeout later, when the other session's objection fires
C25_PeerFiredDuringGeneration ==
    /\ generating_guidance
    /\ gens # << >>
    /\ gens[1].deadline = StartTime + GUIDANCE_TIMEOUT_SECONDS
    /\ now = StartTime + GUIDANCE_TIMEOUT_SECONDS
    /\ peer.last_guidance_time = now
    /\ peer.queued = 1
    /\ peer.transcript_buffer = TextWifeInterim

\* ------------------------------------------------------------------------
\* C26: the step of the provider's thread that dispatches a generation for
\* a hot keyword is the step that stamps last_guidance_time with the
\* event's time and last_trigger_text with its text: the check it passed
\* was against a stamp at least one hot cooldown old, a dispatch that waits
\* in the loop's queue is already stamped, and so each dispatch is stamped
\* at least one hot cooldown after the one before.
C26_StampBeforeDispatch ==
    /\ [][GenerateQueued' > GenerateQueued =>
            /\ now - last_guidance_time >= HOT_TRIGGER_COOLDOWN_SECONDS
            /\ last_guidance_time' = now
            /\ last_guidance_time' >=
                  last_guidance_time + HOT_TRIGGER_COOLDOWN_SECONDS
            /\ \E t \in env.texts, f \in BOOLEAN :
                  /\ HandleTranscript(t, f)
                  /\ last_trigger_text' = t]_vars
    /\ [](GenerateQueued > 0 =>
            /\ last_guidance_time >= StartTime
            /\ last_trigger_text \in env.texts)

\* a second objection arrived within half a second of the first, whose
\* generation was dispatched and had not started: the flag was clear, and
\* the stamp alone kept the second from being dispatched
C26_SecondHeldByStamp ==
    /\ delivered = 2
    /\ invoked = << >>
    /\ ~generating_guidance
    /\ GenerateQueued = 1
    /\ last_trigger_text = TextWifeInterim
    /\ provider = [pc |-> "append", text |-> TextAfford]
    /\ now - last_guidance_time <= 500

\* ------------------------------------------------------------------------
\* C27: when the one transcript delivered so far fired a hot trigger and
\* its handler has finished, the buffer that the dispatched generation
\* finds when it starts is that transcript's text, no more and no less.
C27_BufferIsTriggerText ==
    [][( /\ delivered = 1
         /\ provider.pc = "idle"
         /\ Len(invoked') = Len(invoked) + 1
         /\ invoked'[Len(invoked')] = "started" ) =>
            transcript_buffer = last_trigger_text]_vars

\* ------------------------------------------------------------------------
\* C28: an interim transcript without a hot keyword dispatches nothing and
\* leaves last_guidance_time, last_trigger_text and the buffer as they
\* are, whatever the buffer's word count, the time since the last guidance
\* and the flag; its notification is all that reaches the loop, and no
\* append follows.
C28_InterimNeverStandard ==
    [][delivered' # delivered =>
       \A t \in AllTexts :
          ( /\ t \in env.texts
            /\ ~HotTrigger[t]
            /\ HandleTranscript(t, FALSE) ) =>
                /\ Suppressed
                /\ GenerateQueued' = GenerateQueued
                /\ provider' = ProviderIdle]_vars

\* two final transcripts left 13 or 24 words in the buffer, the standard
\* cooldown is long over, and of the three events delivered, one of them
\* interim, none dispatched a generation
C28_InterimOverThreshold ==
    /\ delivered = 3
    /\ provider = ProviderIdle
    /\ WordCount(transcript_buffer) \in
          {MIN_WORDS_FOR_GUIDANCE + 1, 2 * MIN_WORDS_FOR_GUIDANCE}
    /\ now - last_guidance_time >= GUIDANCE_COOLDOWN_SECONDS
    /\ ~generating_guidance
    /\ Dispatched = 0
    /\ notified = 3

\* ------------------------------------------------------------------------
\* the chunks of generation id among the first n events of out, joined
RECURSIVE ChunksIn(_, _, _)
ChunksIn(out, id, n) ==
    IF n = 0 THEN ""
    ELSE IF out[n].gen = id /\ out[n].type \in {"guidance_start", "guidance_chunk"}
         THEN ChunksIn(out, id, n - 1) \o out[n].chunk
         ELSE ChunksIn(out, id, n - 1)

\* machine m with text as the last entry of its guidance history, when
\* there is a machine
GuidanceRecorded(m, text) ==
    IF m = NoStateMachine THEN {m}
    ELSE { m2 \in {[m EXCEPT !.guidance = Append(@, [guidance |-> text,
                                                   trigger |-> transcript_buffer])]} :
              Len(transcript_buffer) <= 100 }

\* C29: every fragment joins the generation's text in the order it comes;
\* a generation that leaves the backend's stream by its end, with no
\* failure and no timeout, emits guidance_complete exactly when that text
\* is not empty; the event carries the text, which is what the chunks sent
\* add up to, the state machine, when there is one, gets it as the last
\* entry of its guidance history and is otherwise left alone; and the end of
\* the generation clears the buffer.
C29_CompletionBookkeeping ==
    /\ [][\A i \in DOMAIN gens, c \in AllFragments, s \in BOOLEAN :
            BackendYields(i, c, s) =>
                gens'[i].full_text = gens[i].full_text \o c]_vars
    /\ [][\A i \in DOMAIN gens :
            ( /\ i \in DOMAIN gens'
              /\ gens[i].pc \in {"iter", "await_flush"}
              /\ gens'[i].pc \in {"await_complete", "returned"}
              /\ failures' = failures ) =>
                LET n == Len(sent')
                    completes == /\ n > Len(sent)
                                 /\ sent'[n].type = "guidance_complete"
                                 /\ sent'[n].gen = gens[i].id
                IN  /\ completes <=> gens[i].full_text # ""
                    /\ completes =>
                          /\ sent'[n].full_text = gens[i].full_text
                          /\ sent'[n].full_text = ChunksIn(sent', gens[i].id, n)
                          /\ state_machine' \in
                                GuidanceRecorded(state_machine, gens[i].full_text)
                    /\ ~completes => state_machine' = state_machine]_vars
    /\ [][\A i \in DOMAIN gens :
            GenerateGuidanceFinish(i) => transcript_buffer' = ""]_vars

\* the backend yielded "a" and "b"; the generation completed with "ab",
\* which the state machine, created before, has as its one guidance, and
\* the generation ended and cleared the buffer
C29_CompletedAndRecorded ==
    /\ gens = << >>
    /\ ~generating_guidance
    /\ transcript_buffer = ""
    /\ failures = 0
    /\ sent # << >>
    /\ sent[Len(sent)].type = "guidance_complete"
    /\ sent[Len(sent)].full_text = "ab"
    /\ state_machine # NoStateMachine
    /\ Len(state_machine.guidance) = 1
    /\ state_machine.guidance[1].guidance = "ab"

\* ------------------------------------------------------------------------
\* machine m2 is machine m with one more entry, a price objection, at the
\* end of its objection log, when there is a machine, and m otherwise
ObjectionLogged(m, m2) ==
    IF m = NoStateMachine THEN m2 = m
    ELSE /\ Len(m2.objections) = Len(m.objections) + 1
         /\ m2.objections[Len(m2.objections)].kind = "price"
         /\ SubSeq(m2.objections, 1, Len(m.objections)) = m.objections
         /\ [m2 EXCEPT !.objections = m.objections] = m

\* C30: the price_objection event is emitted by the step that starts the
\* generation, first of the generation's events and once; the objection is
\* logged, when there is a state machine, by the step in which on_guidance
\* has returned and the body goes on to the backend, and by no other; a
\* generation that times out while the event is being sent logs nothing;
\* and a generation the classifier does not flag emits no such event and
\* logs nothing.
C30_PriceObjectionOrder ==
    /\ [][( /\ Len(invoked') = Len(invoked) + 1
            /\ invoked'[Len(invoked')] = "started" ) =>
            LET g == gens'[Len(gens')]
                flagged == sent' # sent
            IN  /\ flagged =>
                      /\ sent' = Append(sent, sent'[Len(sent')])
                      /\ sent'[Len(sent')].type = "price_objection"
                      /\ sent'[Len(sent')].gen = g.id
                      /\ g.pc \in {"await_price", "iter"}
                /\ g.pc = "await_price" => flagged /\ state_machine' = state_machine
                /\ (g.pc = "iter" /\ flagged) =>
                      ObjectionLogged(state_machine, state_machine')
                /\ ~flagged => state_machine' = state_machine]_vars
    /\ [][\A i \in DOMAIN gens :
            gens[i].pc = "await_price" =>
                \/ UNCHANGED << gens, sent, state_machine.objections >>
                \/ /\ i \in DOMAIN gens'
                   /\ gens'[i].pc = "iter"
                   /\ gens'[i].yielded = 0
                   /\ sent' = sent
                   /\ ObjectionLogged(state_machine, state_machine')
                \/ /\ gens' = RemoveAt(gens, i)
                   /\ now >= gens[i].deadline
                   /\ sent' = sent
                   /\ state_machine' = state_machine]_vars
    /\ [][state_machine'.objections # state_machine.objections =>
            \E i \in DOMAIN gens' :
                /\ gens'[i].pc = "iter"
                /\ gens'[i].yielded = 0
                /\ i \notin DOMAIN gens \/ gens[i].pc = "await_price"]_vars
    /\ [](\A k \in DOMAIN sent :
            sent[k].type = "price_objection" =>
                \A j \in DOMAIN sent :
                    (j # k /\ sent[j].gen = sent[k].gen) =>
                        /\ j > k
                        /\ sent[j].type # "price_objection")

\* the objection was flagged to the client, then logged in the state
\* machine that the client had created, and then the guidance began
C30_FlaggedLoggedStarted ==
    /\ Len(sent) >= 2
    /\ sent[1].type = "price_objection"
    /\ sent[2].type = "guidance_start"
    /\ state_machine # NoStateMachine
    /\ Len(state_machine.objections) = 1
    /\ state_machine.objections[1].kind = "price"

\* C30 as stated: with a state machine there, a generation whose
\* price_objection event is emitted has its objection logged, so it does
\* not end while the event is still being sent.
C30_EventAndEntry ==
    [][\A i \in DOMAIN gens :
          (gens[i].pc = "await_price" /\ state_machine # NoStateMachine) =>
              i \in DOMAIN gens']_vars


\* ------------------------------------------------------------------------
\* C31 - what the chunks carry
\* ------------------------------------------------------------------------
\* the backend's stream of generation id has ended without raising
StreamEnded(i) ==
    \/ gens[i].pc \in {"await_flush", "await_complete"}
    \/ \E k \in DOMAIN sent : /\ sent[k].type = "guidance_complete"
                              /\ sent[k].gen = gens[i].id

\* C31: every guidance_start and guidance_chunk carries as its full text
\* the chunks emitted so far in its generation, joined in order; while the
\* stream is read, the chunks emitted so far followed by the batch still
\* held are the fragments read so far, in order; and once the stream has
\* ended without raising, the chunks alone are all the fragments.
C31_ChunkContent ==
    /\ \A k \in DOMAIN sent :
          sent[k].type \in {"guidance_start", "guidance_chunk"} =>
             sent[k].full_text = ChunksOf(sent[k].gen, k)
    /\ \A i \in DOMAIN gens :
          /\ gens[i].pc = "iter" =>
                ChunksOf(gens[i].id, Len(sent)) \o gens[i].batch_buffer
                   = gens[i].full_text
          /\ gens[i].pc = "await_chunk" =>
                ChunksOf(gens[i].id, Len(sent)) = gens[i].full_text
          /\ StreamEnded(i) =>
                ChunksOf(gens[i].id, Len(sent)) = gens[i].full_text
    /\ \A k \in DOMAIN sent :
          sent[k].type = "guidance_complete" =>
             ChunksOf(sent[k].gen, Len(sent)) = sent[k].full_text

\* the fragments "a" and "b" came out as a guidance_start and a
\* guidance_chunk, and the generation completed with "ab"
C31_TwoFragmentsInOrder ==
    /\ Len(sent) = 3
    /\ sent[1].type = "guidance_start" /\ sent[1].chunk = "a"
    /\ sent[2].type = "guidance_chunk" /\ sent[2].chunk = "b"
    /\ sent[2].full_text = "ab"
    /\ sent[3].type = "guidance_complete" /\ sent[3].full_text = "ab"

\* C31 as stated: whenever a generation's body has returned, the chunks it
\* emitted are all the fragments the backend yielded.
C31_NoFragmentLost ==
    \A i \in DOMAIN gens :
       gens[i].pc = "returned" =>
          ChunksOf(gens[i].id, Len(sent)) = gens[i].full_text


\* ------------------------------------------------------------------------
\* C32 - the order of a generation's events
\* ------------------------------------------------------------------------
\* C32: a generation emits at most one guidance_start, before each of its
\* guidance_chunk events, and at most one guidance_complete, after each of
\* its guidance_start and guidance_chunk events; and the events of two
\* generations do not interleave.
C32_EventOrder ==
    /\ \A k \in DOMAIN sent, l \in DOMAIN sent :
          ( /\ sent[k].gen = sent[l].gen
            /\ sent[k].type = sent[l].type
            /\ sent[k].type \in {"guidance_start", "guidance_complete"} )
             => k = l
    /\ \A l \in DOMAIN sent :
          sent[l].type = "guidance_chunk" =>
             \E k \in 1..(l - 1) : /\ sent[k].type = "guidance_start"
                                   /\ sent[k].gen = sent[l].gen
    /\ \A k \in DOMAIN sent, l \in DOMAIN sent :
          ( /\ sent[k].gen = sent[l].gen
            /\ sent[k].type = "guidance_complete"
            /\ sent[l].type \in {"guidance_start", "guidance_chunk"} )
             => l < k
    /\ \A k \in DOMAIN sent, l \in DOMAIN sent, m \in DOMAIN sent :
          (k < l /\ l < m /\ sent[k].gen = sent[m].gen)
             => sent[l].gen = sent[k].gen

\* one generation emitted its start, a chunk and its completion, and the
\* next one has emitted its start and a chunk
C32_TwoGenerationsInTurn ==
    /\ Len(sent) = 5
    /\ sent[1].type = "guidance_start"
    /\ sent[2].type = "guidance_chunk"
    /\ sent[3].type = "guidance_complete"
    /\ sent[4].type = "guidance_start"
    /\ sent[5].type = "guidance_chunk"
    /\ sent[4].gen # sent[1].gen


\* ------------------------------------------------------------------------
\* C33 - the guidance history and the completions
\* ------------------------------------------------------------------------
\* the guidance_complete events emitted so far
Completions == EventsOfType("guidance_complete")

\* the step emits a guidance_complete, the last event it emits
Completes ==
    /\ Len(sent') > Len(sent)
    /\ sent'[Len(sent')].type = "guidance_complete"

\* C33: every entry of the guidance history is the text of a
\* guidance_complete that was emitted, one entry for one event; a step
\* writes the history exactly when it emits guidance_complete while there
\* is a state machine, and what it appends is the event's text; and the
\* timeout of a generation writes nothing, so that a generation cut off
\* before its guidance_complete leaves no entry.
C33_HistoryMatchesDelivery ==
    /\ [](/\ Len(state_machine.guidance) <= Cardinality(Completions)
          /\ \A j \in DOMAIN state_machine.guidance :
                \E k \in Completions :
                   sent[k].full_text = state_machine.guidance[j].guidance)
    /\ [][Completes =>
             IF state_machine # NoStateMachine
             THEN /\ Len(state_machine'.guidance)
                       = Len(state_machine.guidance) + 1
                  /\ state_machine'.guidance[Len(state_machine'.guidance)].guidance
                       = sent'[Len(sent')].full_text
             ELSE state_machine' = state_machine]_vars
    /\ [][state_machine'.guidance # state_machine.guidance => Completes]_vars
    /\ [][\A i \in DOMAIN gens :
             GenerateGuidanceTimeout(i) =>
                /\ state_machine' = state_machine
                /\ (\A k \in Completions : sent[k].gen # gens[i].id) =>
                      Len(state_machine.guidance)
                         <= Cardinality({ k \in Completions :
                                            sent[k].gen # gens[i].id })]_vars

\* a generation of a call that has its state machine streamed a start and
\* was cut off by the timeout: no completion, and no entry in the history
C33_CutOffNoEntry ==
    /\ gens = << >>
    /\ ~generating_guidance
    /\ failures = 0
    /\ state_machine # NoStateMachine
    /\ state_machine.guidance = << >>
    /\ sent # << >>
    /\ sent[Len(sent)].type = "guidance_start"
    /\ Len(invoked) = 1
    /\ transcript_buffer = ""

\* a generation's timeout leaves the history without its text
CutOffLeavesNoEntry ==
    \A i \in DOMAIN gens :
       GenerateGuidanceTimeout(i) =>
          \A j \in DOMAIN state_machine'.guidance :
             state_machine'.guidance[j].guidance # gens[i].full_text

\* C33 as stated: the history holds a text exactly when a guidance_complete
\* with that text was emitted, and a generation cut off by the timeout
\* leaves no entry.
C33_RecordedIffCompleted ==
    /\ [](/\ \A k \in Completions :
                \E j \in DOMAIN state_machine.guidance :
                   state_machine.guidance[j].guidance = sent[k].full_text
          /\ \A j \in DOMAIN state_machine.guidance :
                \E k \in Completions :
                   sent[k].full_text = state_machine.guidance[j].guidance)
    /\ [][CutOffLeavesNoEntry]_vars


\* ------------------------------------------------------------------------
\* C34 - transcripts that arrive during a generation
\* ------------------------------------------------------------------------
\* one transcript callback was delivered since generation i started, the
\* final transcript t, which is no part of what the backend was handed and
\* has joined the buffer
ArrivedInFlight(i, t) ==
    /\ generating_guidance
    /\ delivered = gens[i].heard + 1
    /\ provider.pc = "idle"
    /\ ~Contains(gens[i].prompt, t)
    /\ transcript_buffer = gens[i].prompt \o " " \o t

\* C34: the text of a final transcript that arrived while a generation was
\* in flight is in the buffer when that generation has ended.
C34_FinalKept ==
    [][\A i \in DOMAIN gens, t \in AllTexts :
          ( /\ ArrivedInFlight(i, t)
            /\ GenerateGuidanceFinish(i) \/ GenerateGuidanceTimeout(i) )
             => Contains(transcript_buffer', t)]_vars


\* ------------------------------------------------------------------------
\* C35 - the trigger a guidance is attributed to
\* ------------------------------------------------------------------------
\* the excerpt lines 547 and 553 would take of the text s
ExcerptOf(s) == IF Len(s) > 100 THEN Suffix(s, 100) ELSE s

\* C35: the trigger that guidance_complete carries is the excerpt of the
\* buffer the backend was handed, also when a final transcript arrived
\* while the generation was in flight.
C35_TriggerFromPrompt ==
    [][\A i \in DOMAIN gens, t \in AllTexts :
          ( /\ ArrivedInFlight(i, t)
            /\ Completes
            /\ sent'[Len(sent')].gen = gens[i].id )
             => sent'[Len(sent')].trigger = ExcerptOf(gens[i].prompt)]_vars

\* ------------------------------------------------------------------------
\* C36 - what a hot trigger is compared with
\* ------------------------------------------------------------------------
\* C36: a transcript is suppressed as a semantic duplicate only when a hot
\* trigger whose text it duplicates fired within the DEDUP_WINDOW before
\* it; a trigger on the word count in between changes nothing to that.
\* Stated for the transcripts that come when every generation dispatched
\* before has run and ended.
C36_DuplicateOfRecentHot ==
    [][\A t \in AllTexts, f \in BOOLEAN :
          ( /\ HandleTranscript(t, f)
            /\ TriggerDecision(t, f) = "duplicate"
            /\ gens = << >> /\ GenerateQueued = 0 )
             => /\ hot_fired.text # ""
                /\ Similar[t, hot_fired.text]
                /\ now - hot_fired.time <= DEDUP_WINDOW]_vars

\* ------------------------------------------------------------------------
\* C37 - the buffer after a generation
\* ------------------------------------------------------------------------
\* C37: the step that ends a generation past its guards leaves the buffer
\* empty, whether the generation completed with text, produced none,
\* failed in the backend or timed out; so a final transcript without a hot
\* keyword dispatches nothing unless the words appended since are more
\* than MIN_WORDS_FOR_GUIDANCE.
C37_BufferResetAtCleanup ==
    /\ [][\A i \in DOMAIN gens :
             (GenerateGuidanceFinish(i) \/ GenerateGuidanceTimeout(i))
                => transcript_buffer' = ""]_vars
    /\ [][Len(gens') < Len(gens) => transcript_buffer' = ""]_vars
    /\ [][\A t \in AllTexts :
             ( /\ HandleTranscript(t, TRUE)
               /\ ~HotTrigger[t]
               /\ WordCount(transcript_buffer) <= MIN_WORDS_FOR_GUIDANCE )
                => GenerateQueued' = GenerateQueued]_vars

\* an objection's generation streamed its start and timed out; the
\* thirteen words said meanwhile went with the buffer, and the thirteen
\* said after the cooldown joined an empty buffer and fired nothing
C37_TimedOutWordsGone ==
    /\ gens = << >>
    /\ ~generating_guidance
    /\ failures = 0
    /\ invoked = << "started" >>
    /\ GenerateQueued = 0
    /\ sent # << >>
    /\ sent[Len(sent)].type = "guidance_start"
    /\ delivered = 3
    /\ provider.pc = "idle"
    /\ now - last_guidance_time >= GUIDANCE_COOLDOWN_SECONDS
    /\ transcript_buffer = " " \o TextFiller13

\* ------------------------------------------------------------------------
\* C38 - one stream handler for a session
\* ------------------------------------------------------------------------
\* the client handlers constructed for a session so far
ConstructedFor(id) == { h \in DOMAIN handlers : handlers[h].session_id = id }

\* the agent handlers constructed for a session so far
AgentsConstructedFor(id) == { a \in DOMAIN agents : agents[a].session_id = id }

\* the registry calls of a kind for a session that have returned
ReturnedCalls(kind, id) ==
    { k \in TasksOfKind(kind) :
        tasks[k].session_id = id /\ tasks[k].pc = "returned" }

\* C38: however the get_or_create calls for one session id interleave, at
\* most one ClientStreamHandler is constructed and started for the id and
\* every caller is returned that registered handler; the same holds of the
\* AgentStreamHandler of get_or_create_agent_handler.
C38_HandlerUnique ==
    \A id \in SessionIds :
        /\ Cardinality(ConstructedFor(id)) <= 1
        /\ \A k \in ReturnedCalls("get_client", id) :
              tasks[k].handler = client_handlers[id]
        /\ Cardinality(AgentsConstructedFor(id)) <= 1
        /\ \A k \in ReturnedCalls("get_agent", id) :
              tasks[k].handler = agent_handlers[id]

\* the agent's half alone
AgentHandlerUnique ==
    \A id \in SessionIds :
        /\ Cardinality(AgentsConstructedFor(id)) <= 1
        /\ \A k \in ReturnedCalls("get_agent", id) :
              tasks[k].handler = agent_handlers[id]

\* two callers for one session hold different handlers
TwoHandlersReturned ==
    \E id \in SessionIds : \E j, k \in ReturnedCalls("get_client", id) :
        tasks[j].handler # tasks[k].handler

\* ------------------------------------------------------------------------
\* C39 - the gate of a ClientStreamHandler
\* ------------------------------------------------------------------------
\* the _generate_guidance coroutines of handler h past line 250 and not
\* yet through their finally
InFlight(h) ==
    { k \in TasksOfKind("transcript") :
        tasks[k].handler = h /\ tasks[k].pc \in GeneratingPcs }

\* the guidance_start events handler h has broadcast
StartsOf(h) ==
    { i \in DOMAIN broadcasts :
        broadcasts[i].handler = h /\ broadcasts[i].type = "guidance_start" }

\* C39: a ClientStreamHandler has at most one _generate_guidance in flight
\* however its transcript callbacks interleave, only a final transcript
\* starts one, two guidance_start events of the handler are at least
\* GUIDANCE_COOLDOWN_SECONDS apart, and _generating_guidance is set only
\* while a generation is in flight: it is false again after each one, a
\* raising backend included.
C39_ClientGate ==
    \A h \in DOMAIN handlers :
        /\ Cardinality(InFlight(h)) <= 1
        /\ \A k \in InFlight(h) : tasks[k].is_final
        /\ Cardinality(StartsOf(h))
              <= Cardinality({ k \in TasksOfKind("transcript") :
                                 tasks[k].handler = h /\ tasks[k].is_final })
        /\ \A i, j \in StartsOf(h) :
              i < j => broadcasts[j].time - broadcasts[i].time
                          >= CLIENT_GUIDANCE_COOLDOWN_SECONDS
        /\ handlers[h].generating_guidance <=> InFlight(h) # {}

\* two generations of one handler, the second started the moment the
\* cooldown was over; both ended in the except: no completion was
\* broadcast, and the flag is false
C39_TwoStartsBothRaised ==
    \E h \in DOMAIN handlers :
        /\ Cardinality(StartsOf(h)) = 2
        /\ \E i, j \in StartsOf(h) :
              broadcasts[j].time - broadcasts[i].time
                 = CLIENT_GUIDANCE_COOLDOWN_SECONDS
        /\ \A i \in DOMAIN broadcasts :
              broadcasts[i].type # "guidance_complete"
        /\ InFlight(h) = {}
        /\ ~handlers[h].generating_guidance

\* ------------------------------------------------------------------------
\* C40 - the end of a client stream
\* ------------------------------------------------------------------------
\* how often handler h has logged its Deepgram usage
UsageLogged(h) ==
    Cardinality({ i \in DOMAIN deepgram_usage : deepgram_usage[i] = h })

\* how often handler h has broadcast stream_ended
StreamEndedBroadcasts(h) ==
    Cardinality({ i \in DOMAIN broadcasts :
                    broadcasts[i].handler = h
                    /\ broadcasts[i].type = "stream_ended" })

\* C40: across Telnyx's stop message and remove_handler, a
\* ClientStreamHandler logs its Deepgram usage at most once and broadcasts
\* stream_ended at most once.
C40_TeardownOnce ==
    \A h \in DOMAIN handlers :
        /\ UsageLogged(h) <= 1
        /\ StreamEndedBroadcasts(h) <= 1

\* the usage alone
UsageLoggedOnce == \A h \in DOMAIN handlers : UsageLogged(h) <= 1

\* the broadcast alone
StreamEndedOnce == \A h \in DOMAIN handlers : StreamEndedBroadcasts(h) <= 1

====
